---- MODULE Spec2Model ----
(***************************************************************************)
(* Verification model of the rolling stock scheduler:                      *)
(*   - the persistent Schedule and its modifications                       *)
(*     (solution/src/schedule.rs, solution/src/schedule/modifications.rs), *)
(*   - the local-search improvers                                          *)
(*     (solver_framework/src/local_search/local_improver.rs).              *)
(*   - the greedy solver (solver/src/greedy.rs), the Transition            *)
(*     (solution/src/transition.rs) and the Tour of src/schedule/tour.rs.  *)
(* Tour, TrainFormation, Segment and Network are not part of the sources   *)
(* at hand; they are modelled from the specification (sections 3, 4.1 and  *)
(* 4.2) and are marked as such in the model map.                           *)
(***************************************************************************)
EXTENDS Integers, Sequences, FiniteSets, TLC

VARIABLES
    schedule,                 \* the Schedule the caller holds
    input,                    \* the improver at work and the arguments of improve
    solutions,                \* improve_recursion: the solutions whose neighborhoods are searched
    remaining_recursion,      \* improve_recursion: the recursion depth left
    counter,                  \* TakeFirstRecursion: the neighbors evaluated in this call
    solutions_for_recursion,  \* TakeFirstRecursion: the neighbors kept for the recursion
    workers,                  \* TakeAnyParallelRecursion: one spawned task per solution
    success_channel,          \* TakeAnyParallelRecursion: improving neighbors sent, not yet received
    failure_channel,          \* TakeAnyParallelRecursion: candidate lists sent by unsuccessful tasks
    result,                   \* TakeAnyParallelRecursion: the best success received so far
    returned,                 \* what improve has returned, once it has
    instance,                 \* the passengers of the trips and the seats of the vehicle types
    greedy,                   \* Greedy::solve: where the call stands
    tour_nodes,               \* Tour::nodes of a Tour of src/schedule/tour.rs
    transition                \* the tours handed to a Transition constructor and what it built

search_vars == <<input, solutions, remaining_recursion, counter, solutions_for_recursion,
                 workers, success_channel, failure_channel, result, returned>>

solver_vars == <<instance, greedy, tour_nodes, transition>>

vars == <<schedule, search_vars, solver_vars>>

\* Bound of the model: ids are allocated while vehicle_counter < MaxCounter.
MaxCounter == 3

\* the caller keeps at most this many vehicles
MaxVehicles == 2

\* Bound of the model: longest node path handed to an operation.
MaxPathLen == 2

(***************************************************************************)
(* Sequence helpers                                                        *)
(***************************************************************************)
Range(s) == {s[i] : i \in DOMAIN s}

Contains(s, x) == \E i \in DOMAIN s : s[i] = x

\* position of the first occurrence of x in s, 0 when absent
IndexOf(s, x) == IF Contains(s, x) THEN CHOOSE i \in DOMAIN s : s[i] = x /\ \A j \in 1..(i-1) : s[j] # x ELSE 0

RemoveAt(s, i) == SubSeq(s, 1, i-1) \o SubSeq(s, i+1, Len(s))

InsertAt(s, i, x) == SubSeq(s, 1, i-1) \o <<x>> \o SubSeq(s, i, Len(s))

MapInsert(m, k, v) == [x \in (DOMAIN m) \cup {k} |-> IF x = k THEN v ELSE m[x]]

MapRemove(m, k) == [x \in (DOMAIN m) \ {k} |-> m[x]]

EmptyMap == [x \in {} |-> 0]

(***************************************************************************)
(* Identifiers.  A VehicleId is built from a string: "veh{:03}" for a      *)
(* vehicle and "dummy{:05}" for a dummy; the order is the order of these   *)
(* strings ("dummy..." before "veh...", zero padded numbers inside).       *)
(***************************************************************************)
VehId(n) == <<"veh", n>>

DummyId(n) == <<"dummy", n>>

IdLess(a, b) == IF a[1] = b[1] THEN a[2] < b[2] ELSE a[1] = "dummy"

\* Vec::binary_search(..).unwrap_or_else(|e| e) followed by Vec::insert
InsertSorted(s, x) == InsertAt(s, Cardinality({i \in DOMAIN s : IdLess(s[i], x)}) + 1, x)

(***************************************************************************)
(* Network instance: two locations, two depots (each with a start and an   *)
(* end node), two vehicle types, three service trips.                      *)
(***************************************************************************)
Locations == {"A", "B"}

Depots == {1, 2}

VehicleTypes == {1, 2}

StartDepotNode(d) == d

EndDepotNode(d) == 10 + d

StartDepotNodes == {StartDepotNode(d) : d \in Depots}

EndDepotNodes == {EndDepotNode(d) : d \in Depots}

ServiceNodes == {21, 22, 23}

Nodes == StartDepotNodes \cup EndDepotNodes \cup ServiceNodes

IsStartDepot(n) == n \in StartDepotNodes

IsEndDepot(n) == n \in EndDepotNodes

IsDepot(n) == IsStartDepot(n) \/ IsEndDepot(n)

get_depot_id(n) == IF IsStartDepot(n) THEN n ELSE n - 10

DepotLocation(d) == IF d = 1 THEN "A" ELSE "B"

\* service trips: 21 = A->B [1,2], 22 = B->A [3,4], 23 = B->A [1,3]
start_location(n) ==
    CASE n = 21 -> "A" [] n = 22 -> "B" [] n = 23 -> "B" [] OTHER -> DepotLocation(get_depot_id(n))

end_location(n) ==
    CASE n = 21 -> "B" [] n = 22 -> "A" [] n = 23 -> "A" [] OTHER -> DepotLocation(get_depot_id(n))

\* a start depot is available from the earliest time on, an end depot until the latest
Earliest == 0

Latest == 100

start_time(n) ==
    CASE n = 21 -> 1 [] n = 22 -> 3 [] n = 23 -> 1 [] OTHER -> IF IsStartDepot(n) THEN Earliest ELSE Latest

end_time(n) ==
    CASE n = 21 -> 2 [] n = 22 -> 4 [] n = 23 -> 3 [] OTHER -> IF IsStartDepot(n) THEN Earliest ELSE Latest

\* dead-head distance and travel time between two locations
distance(a, b) == IF a = b THEN 0 ELSE 1

travel_time(a, b) == IF a = b THEN 0 ELSE 1

\* reachability: nothing reaches a start depot, an end depot reaches nothing,
\* a start depot reaches every other node, every other node reaches an end depot,
\* and between two trips the arrival plus the dead-head time is at most the departure.
can_reach(a, b) ==
    CASE IsEndDepot(a) -> FALSE
      [] IsStartDepot(b) -> FALSE
      [] IsStartDepot(a) -> TRUE
      [] IsEndDepot(b) -> TRUE
      [] OTHER -> end_time(a) + travel_time(end_location(a), start_location(b)) <= start_time(b)

\* capacity_of(depot, type): Some(n) or None (no limit)
Some(n) == [some |-> TRUE, val |-> n]

None == [some |-> FALSE, val |-> 0]

capacity_of(d, t) ==
    CASE d = 2 /\ t = 1 -> Some(1)
      [] OTHER -> Some(0)

RECURSIVE SortByKey(_, _)
\* the elements of the set S as a sequence sorted by key[x], ties by x
SortByKey(S, key) ==
    IF S = {} THEN <<>>
    ELSE LET m == CHOOSE x \in S : \A y \in S : key[x] < key[y] \/ (key[x] = key[y] /\ x <= y)
         IN <<m>> \o SortByKey(S \ {m}, key)

start_depots_sorted_by_distance_to(loc) ==
    SortByKey(StartDepotNodes, [n \in StartDepotNodes |-> distance(DepotLocation(get_depot_id(n)), loc)])

end_depots_sorted_by_distance_from(loc) ==
    SortByKey(EndDepotNodes, [n \in EndDepotNodes |-> distance(loc, DepotLocation(get_depot_id(n)))])

coverable_nodes == ServiceNodes

(***************************************************************************)
(* TrainFormation: the ordered list of the vehicles covering a node        *)
(***************************************************************************)
Fail(v) == [ok |-> FALSE, val |-> v]

Success(v) == [ok |-> TRUE, val |-> v]

add_at_tail(f, v) == Append(f, v)

formation_remove(f, v) == IF Contains(f, v) THEN Success(RemoveAt(f, IndexOf(f, v))) ELSE Fail(f)

formation_replace(f, old, new) ==
    IF Contains(f, old) THEN Success([f EXCEPT ![IndexOf(f, old)] = new]) ELSE Fail(f)

(***************************************************************************)
(* Tour: the node sequence of one vehicle                                  *)
(***************************************************************************)
NonDepots(nodes) == SelectSeq(nodes, LAMBDA n : ~IsDepot(n))

IsPathInNetwork(nodes) == \A i \in 1..(Len(nodes) - 1) : can_reach(nodes[i], nodes[i+1])

\* the structure of a real tour: one start depot first, one end depot last,
\* no depot in between, at least one node in between
HasDepotStructure(nodes) ==
    /\ Len(nodes) >= 3
    /\ IsStartDepot(nodes[1])
    /\ IsEndDepot(nodes[Len(nodes)])
    /\ \A i \in 2..(Len(nodes) - 1) : ~IsDepot(nodes[i])

\* Tour::new
TourNew(nodes) == IF HasDepotStructure(nodes) /\ IsPathInNetwork(nodes) THEN Success(nodes) ELSE Fail(nodes)

tour_is_dummy(tour) == ~IsDepot(tour[1])

start_depot(tour) == tour[1]

end_depot(tour) == tour[Len(tour)]

first_non_depot(tour) == NonDepots(tour)[1]

last_non_depot(tour) == NonDepots(tour)[Len(NonDepots(tour))]

\* position of the last node of the tour that can reach n (0: none)
LatestReaching(tour, n) ==
    LET I == {i \in DOMAIN tour : can_reach(tour[i], n)}
    IN IF I = {} THEN 0 ELSE CHOOSE i \in I : \A j \in I : j <= i

\* position after L of the first node of the tour that n can reach (Len+1: none)
EarliestReachedAfter(tour, n, L) ==
    LET J == {j \in DOMAIN tour : j > L /\ can_reach(n, tour[j])}
    IN IF J = {} THEN Len(tour) + 1 ELSE CHOOSE j \in J : \A k \in J : j <= k

\* Tour::conflict: the nodes an insertion of a path from first to last_ displaces
TourConflict(tour, first, last_) ==
    LET L == LatestReaching(tour, first)
        R == EarliestReachedAfter(tour, last_, L)
    IN SubSeq(tour, L + 1, R - 1)

\* Tour::insert_path: nodes[0..=L] ++ path ++ nodes[R..], and the displaced nodes
insert_path(tour, path) ==
    LET L == LatestReaching(tour, path[1])
        R == EarliestReachedAfter(tour, path[Len(path)], L)
    IN [tour |-> SubSeq(tour, 1, L) \o path \o SubSeq(tour, R, Len(tour)),
        replaced |-> SubSeq(tour, L + 1, R - 1)]

\* Tour::check_removable: the segment is a contiguous part of the tour without
\* depots and what remains is a path again
check_removable(tour, first, last_) ==
    LET i == IndexOf(tour, first)
        j == IndexOf(tour, last_)
    IN /\ i > 0
       /\ j >= i
       /\ ~IsDepot(first)
       /\ ~IsDepot(last_)
       /\ (i > 1 /\ j < Len(tour)) => can_reach(tour[i-1], tour[j+1])

\* Tour::sub_path
sub_path(tour, first, last_) ==
    LET i == IndexOf(tour, first)
        j == IndexOf(tour, last_)
    IN IF i > 0 /\ j >= i /\ ~IsDepot(first) /\ ~IsDepot(last_)
       THEN Success(SubSeq(tour, i, j)) ELSE Fail(<<>>)

\* Tour::remove: the shrunk tour (<<>>: no non-depot node is left) and the removed path
tour_remove(tour, first, last_) ==
    LET i == IndexOf(tour, first)
        j == IndexOf(tour, last_)
        rest == SubSeq(tour, 1, i-1) \o SubSeq(tour, j+1, Len(tour))
    IN IF check_removable(tour, first, last_)
       THEN Success([shrunk |-> IF NonDepots(rest) = <<>> THEN <<>> ELSE rest, path |-> SubSeq(tour, i, j)])
       ELSE Fail([shrunk |-> <<>>, path |-> <<>>])

replace_start_depot(tour, d) ==
    IF IsStartDepot(d) /\ can_reach(d, tour[2]) THEN Success([tour EXCEPT ![1] = d]) ELSE Fail(tour)

replace_end_depot(tour, d) ==
    IF IsEndDepot(d) /\ can_reach(tour[Len(tour) - 1], d)
    THEN Success([tour EXCEPT ![Len(tour)] = d]) ELSE Fail(tour)

(***************************************************************************)
(* Schedule: the persistent snapshot                                       *)
(***************************************************************************)
NoId == <<"none", 0>>

\* Schedule::empty
EmptySchedule ==
    [vehicles |-> EmptyMap,
     tours |-> EmptyMap,
     train_formations |-> [n \in coverable_nodes |-> <<>>],
     depot_usage |-> EmptyMap,
     dummy_tours |-> EmptyMap,
     vehicle_counter |-> 0,
     vehicle_ids_sorted |-> <<>>,
     dummy_ids_sorted |-> <<>>]

is_vehicle(S, v) == v \in DOMAIN S.vehicles

is_dummy(S, v) == v \in DOMAIN S.dummy_tours

has_tour(S, v) == v \in (DOMAIN S.tours) \cup (DOMAIN S.dummy_tours)

\* Schedule::tour_of (defined when has_tour)
tour_of(S, v) == IF v \in DOMAIN S.tours THEN S.tours[v] ELSE S.dummy_tours[v]

\* Schedule::conflict: the nodes of the receiver's tour the segment would displace
conflict(S, first, last_, receiver) == TourConflict(tour_of(S, receiver), first, last_)

number_of_spawned(S, d, t) ==
    IF <<d, t>> \in DOMAIN S.depot_usage THEN Cardinality(S.depot_usage[<<d, t>>].spawned) ELSE 0

can_depot_spawn_vehicle(S, start_depot_node, t) ==
    LET depot == get_depot_id(start_depot_node)
        capacity == capacity_of(depot, t)
    IN IF capacity = Some(0) THEN FALSE
       ELSE IF ~capacity.some THEN TRUE
       ELSE number_of_spawned(S, depot, t) < capacity.val

\* the least element of a non-empty set of numbers
MinOf(I) == CHOOSE i \in I : \A j \in I : i <= j

find_best_start_depot_for_spawning(S, t, first_node) ==
    LET Find(sorted) ==
            LET able == {i \in DOMAIN sorted : can_depot_spawn_vehicle(S, sorted[i], t)}
            IN IF able = {} THEN Fail(0) ELSE Success(sorted[MinOf(able)])
    IN Find(start_depots_sorted_by_distance_to(start_location(first_node)))

find_best_end_depot_for_despawning(S, t, last_node) ==
    LET First(sorted) == IF sorted = <<>> THEN Fail(0) ELSE Success(sorted[1])
    IN First(end_depots_sorted_by_distance_from(end_location(last_node)))

add_suitable_start_and_end_depot_to_path(S, t, nodes) ==
    LET first_node == nodes[1]
        last_node == nodes[Len(nodes)]
        PushEnd(with_start, depot) ==
            IF ~depot.ok THEN Fail(nodes) ELSE Success(Append(with_start, depot.val))
        AddEnd(with_start) ==
            IF IsDepot(last_node) THEN Success(with_start)
            ELSE PushEnd(with_start, find_best_end_depot_for_despawning(S, t, last_node))
        InsertStart(depot) ==
            IF IsDepot(first_node) THEN AddEnd(nodes)
            ELSE IF ~depot.ok THEN Fail(nodes)
            ELSE AddEnd(<<depot.val>> \o nodes)
    IN IF IsDepot(first_node) /\ ~can_depot_spawn_vehicle(S, first_node, t) THEN Fail(nodes)
       ELSE InsertStart(find_best_start_depot_for_spawning(S, t, first_node))

\* the replacement putting a new vehicle in front of the formation
vehicle_replacement_adding_at_head(S, provider, receiver_vehicle, node) ==
    LET old_formation == S.train_formations[node]
        real_receiver == receiver_vehicle # NoId /\ ~is_dummy(S, receiver_vehicle)
        real_provider == provider # NoId /\ ~is_dummy(S, provider)
    IN IF real_receiver
       THEN IF real_provider
            THEN formation_replace(old_formation, provider, receiver_vehicle)
            ELSE Success(<<receiver_vehicle>> \o old_formation)
       ELSE IF real_provider
            THEN formation_remove(old_formation, provider)
            ELSE Success(old_formation)

\* Replace a vehicle in the train formation of a node (of the receiver schedule S).
\* provider / receiver_vehicle = NoId stand for None.
vehicle_replacement_in_train_formation(S, provider, receiver_vehicle, node) ==
    LET old_formation == S.train_formations[node]
        real_receiver == receiver_vehicle # NoId /\ ~is_dummy(S, receiver_vehicle)
        real_provider == provider # NoId /\ ~is_dummy(S, provider)
    IN IF real_receiver
       THEN IF real_provider
            THEN formation_replace(old_formation, provider, receiver_vehicle)
            ELSE Success(add_at_tail(old_formation, receiver_vehicle))
       ELSE IF real_provider
            THEN formation_remove(old_formation, provider)
            ELSE Success(old_formation)

\* Every non-depot node of moved_nodes gets the formation computed from the
\* formation the receiver schedule S has for it; ok = FALSE when an unwrap() fails.
update_train_formation(S, train_formations, provider, receiver_vehicle, moved_nodes) ==
    LET touched == {n \in Range(moved_nodes) : ~IsDepot(n)}
        Insert(new) ==
            [ok |-> touched \subseteq DOMAIN new /\ \A n \in DOMAIN new : new[n].ok,
             val |-> [n \in (DOMAIN train_formations) \cup (DOMAIN new) |->
                        IF n \in DOMAIN new THEN new[n].val ELSE train_formations[n]]]
    IN Insert([n \in touched \cap DOMAIN S.train_formations |->
                  vehicle_replacement_in_train_formation(S, provider, receiver_vehicle, n)])

\* entry(key).and_modify(|e| e.0.remove(&id).unwrap()), then
\* entry(key).and_modify(|e| e.0.insert(id)): an absent key stays absent.
update_depot_usage_for_new_start_depot(S, depot_usage, vehicle_id, t, has_new, new_node) ==
    LET Insert(du, new_key) ==
            IF du.ok /\ has_new /\ new_key \in DOMAIN du.val
            THEN [du EXCEPT !.val[new_key].spawned = @ \cup {vehicle_id}] ELSE du
        Remove(old_key) ==
            IF old_key \in DOMAIN depot_usage
            THEN [ok |-> vehicle_id \in depot_usage[old_key].spawned,
                  val |-> [depot_usage EXCEPT ![old_key].spawned = @ \ {vehicle_id}]]
            ELSE Success(depot_usage)
        Removed ==
            IF ~is_vehicle(S, vehicle_id) THEN Success(depot_usage)
            ELSE IF ~has_tour(S, vehicle_id) THEN Fail(depot_usage)
            ELSE Remove(<<get_depot_id(start_depot(tour_of(S, vehicle_id))), t>>)
    IN Insert(Removed, <<get_depot_id(new_node), t>>)

update_depot_usage_for_new_end_depot(S, depot_usage, vehicle_id, t, has_new, new_node) ==
    LET Insert(du, new_key) ==
            IF du.ok /\ has_new /\ new_key \in DOMAIN du.val
            THEN [du EXCEPT !.val[new_key].despawned = @ \cup {vehicle_id}] ELSE du
        Remove(old_key) ==
            IF old_key \in DOMAIN depot_usage
            THEN [ok |-> vehicle_id \in depot_usage[old_key].despawned,
                  val |-> [depot_usage EXCEPT ![old_key].despawned = @ \ {vehicle_id}]]
            ELSE Success(depot_usage)
        Removed ==
            IF ~is_vehicle(S, vehicle_id) THEN Success(depot_usage)
            ELSE IF ~has_tour(S, vehicle_id) THEN Fail(depot_usage)
            ELSE Remove(<<get_depot_id(end_depot(tour_of(S, vehicle_id))), t>>)
    IN Insert(Removed, <<get_depot_id(new_node), t>>)

\* has_new = FALSE stands for new_tour = None
update_depot_usage_assuming_no_dummies(S, depot_usage, vehicle_id, t, has_new, new_tour) ==
    LET End(s) ==
            IF ~s.ok THEN s
            ELSE update_depot_usage_for_new_end_depot(S, s.val, vehicle_id, t, has_new,
                                                      IF has_new THEN end_depot(new_tour) ELSE 0)
    IN End(update_depot_usage_for_new_start_depot(S, depot_usage, vehicle_id, t, has_new,
                                                  IF has_new THEN start_depot(new_tour) ELSE 0))

update_depot_usage(S, depot_usage, vehicles, tours, vehicle_id) ==
    LET in_new == vehicle_id \in DOMAIN vehicles
        has_new == in_new /\ vehicle_id \in DOMAIN tours
    IN IF in_new \/ vehicle_id \in DOMAIN S.vehicles
       THEN update_depot_usage_assuming_no_dummies(S, depot_usage, vehicle_id,
                IF in_new THEN vehicles[vehicle_id] ELSE S.vehicles[vehicle_id],
                has_new, IF has_new THEN tours[vehicle_id] ELSE <<>>)
       ELSE Success(depot_usage)

(***************************************************************************)
(* Results of the public operations: a new schedule ("ok"), an error value *)
(* ("err") or a panic (a failed unwrap, "panic").  new_id is the id the    *)
(* operation allocated, NoId when it allocated none.  A result that is not *)
(* "ok" carries the receiver in sched.                                     *)
(***************************************************************************)
Ok(S, id) == [outcome |-> "ok", sched |-> S, new_id |-> id]

Err(S) == [outcome |-> "err", sched |-> S, new_id |-> NoId]

Panic(S) == [outcome |-> "panic", sched |-> S, new_id |-> NoId]

spawn_vehicle_for_path(S, t, path_as_vec) ==
    LET vehicle_id == VehId(S.vehicle_counter)
        vehicles == MapInsert(S.vehicles, vehicle_id, t)
        Build(tour, tf, du) ==
            IF ~tf.ok \/ ~du.ok THEN Panic(S)
            ELSE Ok([S EXCEPT !.vehicles = vehicles,
                              !.tours = MapInsert(S.tours, vehicle_id, tour),
                              !.train_formations = tf.val,
                              !.depot_usage = du.val,
                              !.vehicle_ids_sorted = InsertSorted(S.vehicle_ids_sorted, vehicle_id),
                              !.vehicle_counter = S.vehicle_counter + 1], vehicle_id)
        WithTour(tour) ==
            IF ~tour.ok THEN Err(S)
            ELSE Build(tour.val,
                       update_train_formation(S, S.train_formations, NoId, vehicle_id, tour.val),
                       update_depot_usage(S, S.depot_usage, vehicles, S.tours, vehicle_id))
        WithNodes(nodes) == IF ~nodes.ok THEN Err(S) ELSE WithTour(TourNew(nodes.val))
    IN IF path_as_vec = <<>> THEN Panic(S)
       ELSE WithNodes(add_suitable_start_and_end_depot_to_path(S, t, path_as_vec))

delete_vehicle(S, vehicle_id) ==
    LET vehicles == MapRemove(S.vehicles, vehicle_id)
        pos == IndexOf(S.vehicle_ids_sorted, vehicle_id)
        tours == MapRemove(S.tours, vehicle_id)
        Build(tf, du) ==
            IF ~tf.ok \/ ~du.ok THEN Panic(S)
            ELSE Ok([S EXCEPT !.vehicles = vehicles,
                              !.tours = tours,
                              !.train_formations = tf.val,
                              !.depot_usage = du.val,
                              !.vehicle_ids_sorted = RemoveAt(S.vehicle_ids_sorted, pos)], NoId)
    IN IF is_dummy(S, vehicle_id) THEN Err(S)
       ELSE IF pos = 0 THEN Panic(S)
       ELSE IF vehicle_id \notin DOMAIN tours THEN Panic(S)
       ELSE Build(update_train_formation(S, S.train_formations, vehicle_id, NoId, tours[vehicle_id]),
                  update_depot_usage(S, S.depot_usage, vehicles, tours, vehicle_id))

\* delete_dummy leaving the id in dummy_ids_sorted
delete_dummy_keeping_sorted_id(S, dummy) ==
    LET pos == IndexOf(S.dummy_ids_sorted, dummy)
    IN IF ~is_dummy(S, dummy) THEN Err(S)
       ELSE IF pos = 0 THEN Panic(S)
       ELSE Ok([S EXCEPT !.dummy_tours = MapRemove(S.dummy_tours, dummy)], NoId)

delete_dummy(S, dummy) ==
    LET pos == IndexOf(S.dummy_ids_sorted, dummy)
    IN IF ~is_dummy(S, dummy) THEN Err(S)
       ELSE IF pos = 0 THEN Panic(S)
       ELSE Ok([S EXCEPT !.dummy_tours = MapRemove(S.dummy_tours, dummy),
                         !.dummy_ids_sorted = RemoveAt(S.dummy_ids_sorted, pos)], NoId)

spawn_vehicle_to_replace_dummy_tour(S, dummy_id, t) ==
    LET Return(res) == IF res.outcome = "ok" THEN res ELSE [res EXCEPT !.sched = S]
        Spawn(intermediate_schedule, nodes) ==
            IF intermediate_schedule.outcome # "ok" THEN intermediate_schedule
            ELSE Return(spawn_vehicle_for_path(intermediate_schedule.sched, t, nodes))
    IN IF dummy_id \notin DOMAIN S.dummy_tours THEN Panic(S)
       ELSE Spawn(delete_dummy(S, dummy_id), S.dummy_tours[dummy_id])

\* position of the first node of the tour that cannot reach target (0: all can)
latest_not_reaching_node(tour, target) ==
    LET I == {i \in DOMAIN tour : ~can_reach(tour[i], target)}
    IN IF I = {} THEN 0 ELSE MinOf(I)

\* improve_depots_of_tour pushing the new end depot behind the old one instead
\* of replacing it
improve_depots_of_tour_pushing_end_depot(S, tour, t) ==
    LET ReplaceEnd(intermediate_tour, new_end_depot) ==
            IF ~new_end_depot.ok THEN Fail(tour)
            ELSE IF new_end_depot.val # end_depot(intermediate_tour)
            THEN Success(Append(intermediate_tour, new_end_depot.val))
            ELSE Success(intermediate_tour)
        ChooseEnd(intermediate_tour) ==
            IF ~intermediate_tour.ok THEN Fail(tour)
            ELSE ReplaceEnd(intermediate_tour.val,
                     find_best_end_depot_for_despawning(S, t, last_non_depot(intermediate_tour.val)))
        ReplaceStart(new_start_depot) ==
            IF ~new_start_depot.ok THEN Fail(tour)
            ELSE ChooseEnd(IF new_start_depot.val # start_depot(tour)
                           THEN replace_start_depot(tour, new_start_depot.val)
                           ELSE Success(tour))
    IN IF NonDepots(tour) = <<>> THEN Fail(tour)
       ELSE ReplaceStart(find_best_start_depot_for_spawning(S, t, first_non_depot(tour)))

improve_depots_of_tour(S, tour, t) ==
    LET ReplaceEnd(intermediate_tour, new_end_depot) ==
            IF ~new_end_depot.ok THEN Fail(tour)
            ELSE IF new_end_depot.val # end_depot(intermediate_tour)
            THEN replace_end_depot(intermediate_tour, new_end_depot.val)
            ELSE Success(intermediate_tour)
        ChooseEnd(intermediate_tour) ==
            IF ~intermediate_tour.ok THEN Fail(tour)
            ELSE ReplaceEnd(intermediate_tour.val,
                     find_best_end_depot_for_despawning(S, t, last_non_depot(intermediate_tour.val)))
        ReplaceStart(new_start_depot) ==
            IF ~new_start_depot.ok THEN Fail(tour)
            ELSE ChooseEnd(IF new_start_depot.val # start_depot(tour)
                           THEN replace_start_depot(tour, new_start_depot.val)
                           ELSE Success(tour))
    IN IF NonDepots(tour) = <<>> THEN Fail(tour)
       ELSE ReplaceStart(find_best_start_depot_for_spawning(S, t, first_non_depot(tour)))

\* the pair (tours, dummy_tours) after the vehicle got its new tour
update_tour(S, tours, dummy_tours, vehicle, new_tour) ==
    LET Insert(improved) ==
            IF ~improved.ok THEN Fail([tours |-> tours, dummy_tours |-> dummy_tours])
            ELSE Success([tours |-> MapInsert(tours, vehicle, improved.val), dummy_tours |-> dummy_tours])
    IN IF is_dummy(S, vehicle)
       THEN Success([tours |-> tours, dummy_tours |-> MapInsert(dummy_tours, vehicle, new_tour)])
       ELSE IF ~is_vehicle(S, vehicle)
            THEN Fail([tours |-> tours, dummy_tours |-> dummy_tours])
            ELSE Insert(improve_depots_of_tour(S, new_tour, S.vehicles[vehicle]))

\* W: the working copies [vehicles, tours, train_formations, depot_usage, dummy_tours,
\* vehicle_ids_sorted, dummy_ids_sorted]; new_tour_provider = <<>> stands for None.
update_tours(S, W, provider, new_tour_provider, receiver, new_tour_receiver, moved_nodes) ==
    LET receiver_vehicle == IF is_vehicle(S, receiver) THEN receiver ELSE NoId
        SetFormations(W4, tf) ==
            IF ~tf.ok THEN Fail(W) ELSE Success([W4 EXCEPT !.train_formations = tf.val])
        SetReceiverUsage(W3, du) ==
            IF ~du.ok THEN Fail(W)
            ELSE SetFormations([W3 EXCEPT !.depot_usage = du.val],
                     update_train_formation(S, W3.train_formations, provider, receiver_vehicle, moved_nodes))
        ReceiverUsage(W3) ==
            SetReceiverUsage(W3, update_depot_usage(S, W3.depot_usage, W3.vehicles, W3.tours, receiver))
        SetReceiverTour(W2, upd) ==
            IF ~upd.ok THEN Fail(W)
            ELSE ReceiverUsage([W2 EXCEPT !.tours = upd.val.tours, !.dummy_tours = upd.val.dummy_tours])
        ReceiverTour(W2) ==
            SetReceiverTour(W2, update_tour(S, W2.tours, W2.dummy_tours, receiver, new_tour_receiver))
        SetProviderUsage(W1, du) ==
            IF ~du.ok THEN Fail(W) ELSE ReceiverTour([W1 EXCEPT !.depot_usage = du.val])
        ProviderUsage(W1) ==
            IF ~W1.ok THEN Fail(W)
            ELSE SetProviderUsage(W1.val,
                     update_depot_usage(S, W1.val.depot_usage, W1.val.vehicles, W1.val.tours, provider))
        SetProviderTour(upd) ==
            [ok |-> upd.ok, val |-> [W EXCEPT !.tours = upd.val.tours, !.dummy_tours = upd.val.dummy_tours]]
        DeleteDummyProvider(pos) ==
            [ok |-> pos > 0,
             val |-> [W EXCEPT !.dummy_tours = MapRemove(W.dummy_tours, provider),
                               !.dummy_ids_sorted = RemoveAt(W.dummy_ids_sorted, pos)]]
        DeleteVehicleProvider(pos) ==
            [ok |-> pos > 0,
             val |-> [W EXCEPT !.vehicles = MapRemove(W.vehicles, provider),
                               !.tours = MapRemove(W.tours, provider),
                               !.vehicle_ids_sorted = RemoveAt(W.vehicle_ids_sorted, pos)]]
    IN ProviderUsage(
           IF new_tour_provider # <<>>
           THEN SetProviderTour(update_tour(S, W.tours, W.dummy_tours, provider, new_tour_provider))
           ELSE IF is_dummy(S, provider) THEN DeleteDummyProvider(IndexOf(W.dummy_ids_sorted, provider))
           ELSE IF is_vehicle(S, provider) THEN DeleteVehicleProvider(IndexOf(W.vehicle_ids_sorted, provider))
           ELSE Success(W))

WorkingCopies(S) ==
    [vehicles |-> S.vehicles, tours |-> S.tours, train_formations |-> S.train_formations,
     depot_usage |-> S.depot_usage, dummy_tours |-> S.dummy_tours,
     vehicle_ids_sorted |-> S.vehicle_ids_sorted, dummy_ids_sorted |-> S.dummy_ids_sorted]

\* the schedule built with a vehicle_counter one behind
ScheduleOfWithCounterBehind(W, vehicle_counter) ==
    [vehicles |-> W.vehicles, tours |-> W.tours, train_formations |-> W.train_formations,
     depot_usage |-> W.depot_usage, dummy_tours |-> W.dummy_tours,
     vehicle_counter |-> IF vehicle_counter > 0 THEN vehicle_counter - 1 ELSE 0,
     vehicle_ids_sorted |-> W.vehicle_ids_sorted, dummy_ids_sorted |-> W.dummy_ids_sorted]

\* Schedule { vehicles, tours, ... } built from the working copies
ScheduleOf(W, vehicle_counter) ==
    [vehicles |-> W.vehicles, tours |-> W.tours, train_formations |-> W.train_formations,
     depot_usage |-> W.depot_usage, dummy_tours |-> W.dummy_tours, vehicle_counter |-> vehicle_counter,
     vehicle_ids_sorted |-> W.vehicle_ids_sorted, dummy_ids_sorted |-> W.dummy_ids_sorted]

add_path_to_vehicle_tour(S, vehicle_id, path) ==
    LET Build(new_tour, tf, du) ==
            IF ~tf.ok \/ ~du.ok THEN Panic(S)
            ELSE Ok([S EXCEPT !.tours = MapInsert(S.tours, vehicle_id, new_tour),
                              !.train_formations = tf.val,
                              !.depot_usage = du.val], NoId)
        RemoveReplaced(ins, tf) ==
            IF ~tf.ok THEN Panic(S)
            ELSE Build(ins.tour,
                       IF ins.replaced # <<>>
                       THEN update_train_formation(S, tf.val, vehicle_id, NoId, ins.replaced)
                       ELSE tf,
                       update_depot_usage(S, S.depot_usage, S.vehicles, S.tours, vehicle_id))
        Insert(tf) ==
            IF vehicle_id \notin DOMAIN S.tours THEN Panic(S)
            ELSE RemoveReplaced(insert_path(S.tours[vehicle_id], path), tf)
    IN IF ~is_vehicle(S, vehicle_id) THEN Panic(S)
       ELSE Insert(update_train_formation(S, S.train_formations, NoId, vehicle_id, path))

\* add_dummy_tour leaving the id out of dummy_ids_sorted
add_dummy_tour_forgetting_sorted_id(W, dummy_id, path) ==
    [W EXCEPT !.dummy_tours = MapInsert(W.dummy_tours, dummy_id, path)]

\* a dummy tour made of the first node of the path only
add_dummy_tour_of_first_node(W, dummy_id, path) ==
    [W EXCEPT !.dummy_tours = MapInsert(W.dummy_tours, dummy_id, <<path[1]>>),
              !.dummy_ids_sorted = InsertSorted(W.dummy_ids_sorted, dummy_id)]

add_dummy_tour(W, dummy_id, path) ==
    [W EXCEPT !.dummy_tours = MapInsert(W.dummy_tours, dummy_id, path),
              !.dummy_ids_sorted = InsertSorted(W.dummy_ids_sorted, dummy_id)]

override_reassign(S, first, last_, provider, receiver) ==
    LET new_dummy == DummyId(S.vehicle_counter)
        AddDummy(W, new_path, tf) ==
            IF ~tf.ok THEN Panic(S)
            ELSE Ok(ScheduleOf(add_dummy_tour([W EXCEPT !.train_formations = tf.val], new_dummy, new_path),
                               S.vehicle_counter + 1), new_dummy)
        Replaced(upd, replaced_path) ==
            IF ~upd.ok THEN Panic(S)
            ELSE IF replaced_path = <<>> THEN Ok(ScheduleOf(upd.val, S.vehicle_counter), NoId)
            ELSE AddDummy(upd.val, replaced_path,
                          IF is_vehicle(S, receiver)
                          THEN update_train_formation(S, upd.val.train_formations, receiver, NoId, replaced_path)
                          ELSE Success(upd.val.train_formations))
        Insert(shrinked_tour_provider, moved_nodes, ins) ==
            Replaced(update_tours(S, WorkingCopies(S), provider, shrinked_tour_provider,
                                  receiver, ins.tour, moved_nodes),
                     ins.replaced)
        Remove(removed) ==
            IF ~removed.ok THEN Err(S)
            ELSE Insert(removed.val.shrunk, removed.val.path,
                        insert_path(tour_of(S, receiver), removed.val.path))
    IN IF ~has_tour(S, provider) \/ ~has_tour(S, receiver) THEN Panic(S)
       ELSE Remove(tour_remove(tour_of(S, provider), first, last_))

\* cautious_reassign delegating without looking at the conflict
cautious_reassign_ignoring_conflict(S, first, last_, provider, receiver) ==
    IF ~has_tour(S, receiver) THEN Panic(S)
    ELSE [override_reassign(S, first, last_, provider, receiver) EXCEPT !.new_id = NoId]

cautious_reassign(S, first, last_, provider, receiver) ==
    IF ~has_tour(S, receiver) THEN Panic(S)
    ELSE IF conflict(S, first, last_, receiver) # <<>> THEN Err(S)
    ELSE [override_reassign(S, first, last_, provider, receiver) EXCEPT !.new_id = NoId]

RECURSIVE fit_loop(_, _, _, _)
\* The loop of fit_path_into_tour: the remaining path is cut into maximal sub-segments
\* that fit before the receiver's blocker; new_tour_provider = <<>> stands for None.
fit_loop(new_tour_provider, new_tour_receiver, remaining_path, moved_nodes) ==
    LET sub_segment_start == remaining_path[1]
        EndPos(pos) ==
            LET blocker == new_tour_receiver[pos]
                in_time == {i \in DOMAIN remaining_path :
                               \A k \in 1..i : end_time(remaining_path[k]) <= start_time(blocker)}
                candidates == {i \in in_time :
                                  /\ can_reach(remaining_path[i], blocker)
                                  /\ check_removable(new_tour_provider, sub_segment_start, remaining_path[i])}
            IN IF pos = 0 THEN Len(remaining_path)
               ELSE IF candidates = {} THEN 1
               ELSE CHOOSE i \in candidates : \A j \in candidates : j <= i
        Rest(split_off) == IF NonDepots(split_off) = <<>> THEN <<>> ELSE split_off
        Move(remove_result, node_sequence, rest) ==
            IF ~remove_result.ok
               \/ TourConflict(new_tour_receiver, sub_segment_start, node_sequence[Len(node_sequence)]) # <<>>
            THEN fit_loop(new_tour_provider, new_tour_receiver, rest, moved_nodes)
            ELSE fit_loop(remove_result.val.shrunk,
                          insert_path(new_tour_receiver, remove_result.val.path).tour,
                          rest, moved_nodes \o node_sequence)
        Cut(end_pos) ==
            Move(tour_remove(new_tour_provider, sub_segment_start, remaining_path[end_pos]),
                 SubSeq(remaining_path, 1, end_pos),
                 Rest(SubSeq(remaining_path, end_pos + 1, Len(remaining_path))))
    IN IF remaining_path = <<>>
       THEN Success([provider |-> new_tour_provider, receiver |-> new_tour_receiver, moved |-> moved_nodes])
       ELSE IF new_tour_provider = <<>>
       THEN Fail([provider |-> new_tour_provider, receiver |-> new_tour_receiver, moved |-> moved_nodes])
       ELSE Cut(EndPos(latest_not_reaching_node(new_tour_receiver, sub_segment_start)))

\* fit_path_into_tour moving the whole path at once, whatever it displaces
fit_path_into_tour_displacing(S, path, provider, receiver) ==
    LET Move(removed) ==
            IF ~removed.ok THEN Fail([provider |-> <<>>, receiver |-> <<>>, moved |-> <<>>])
            ELSE Success([provider |-> removed.val.shrunk,
                          receiver |-> insert_path(tour_of(S, receiver), path).tour,
                          moved |-> path])
    IN Move(tour_remove(tour_of(S, provider), path[1], path[Len(path)]))

fit_path_into_tour(S, path, provider, receiver) ==
    fit_loop(tour_of(S, provider), tour_of(S, receiver), path, <<>>)

fit_reassign(S, first, last_, provider, receiver) ==
    LET Build(upd) == IF ~upd.ok THEN Panic(S) ELSE Ok(ScheduleOf(upd.val, S.vehicle_counter), NoId)
        Update(fit) ==
            IF ~fit.ok THEN Panic(S)
            ELSE Build(update_tours(S, WorkingCopies(S), provider, fit.val.provider,
                                    receiver, fit.val.receiver, fit.val.moved))
        Fit(path) ==
            IF ~path.ok THEN Err(S)
            ELSE IF ~has_tour(S, receiver) THEN Panic(S)
            ELSE Update(fit_path_into_tour(S, path.val, provider, receiver))
    IN IF ~has_tour(S, provider) THEN Panic(S)
       ELSE Fit(sub_path(tour_of(S, provider), first, last_))

RECURSIVE reassign_loop(_, _, _, _)
\* the loop of reassign_end_depots_greedily over the vehicles ids: the pair
\* (tours, depot_usage) after it, not ok when an unwrap() fails or no end depot is found
reassign_loop(S, ids, tours, depot_usage) ==
    LET vehicle_id == Head(ids)
        Usage(new_tours, du) ==
            IF ~du.ok THEN [outcome |-> "panic", tours |-> tours, depot_usage |-> depot_usage]
            ELSE reassign_loop(S, Tail(ids), new_tours, du.val)
        Insert(new_tour) ==
            IF ~new_tour.ok THEN [outcome |-> "panic", tours |-> tours, depot_usage |-> depot_usage]
            ELSE Usage(MapInsert(tours, vehicle_id, new_tour.val),
                       update_depot_usage(S, depot_usage, S.vehicles,
                                          MapInsert(tours, vehicle_id, new_tour.val), vehicle_id))
        Replace(tour, sorted) ==
            IF sorted = <<>> THEN [outcome |-> "err", tours |-> tours, depot_usage |-> depot_usage]
            ELSE Insert(replace_end_depot(tour, sorted[1]))
    IN IF ids = <<>> THEN [outcome |-> "ok", tours |-> tours, depot_usage |-> depot_usage]
       ELSE IF ~has_tour(S, vehicle_id) \/ NonDepots(tour_of(S, vehicle_id)) = <<>>
       THEN [outcome |-> "panic", tours |-> tours, depot_usage |-> depot_usage]
       ELSE Replace(tour_of(S, vehicle_id),
                    end_depots_sorted_by_distance_from(end_location(last_non_depot(tour_of(S, vehicle_id)))))

reassign_end_depots_greedily(S) ==
    LET Build(loop) ==
            IF loop.outcome = "panic" THEN Panic(S)
            ELSE IF loop.outcome = "err" THEN Err(S)
            ELSE Ok([S EXCEPT !.tours = loop.tours,
                              !.depot_usage = loop.depot_usage,
                              !.vehicle_counter = S.vehicle_counter + 1], NoId)
    IN Build(reassign_loop(S, S.vehicle_ids_sorted, S.tours, S.depot_usage))

(***************************************************************************)
(* The caller: it holds one schedule and applies the public operations to  *)
(* it; when an operation returns a schedule the caller goes on with it.    *)
(***************************************************************************)
RECURSIVE SeqsUpTo(_, _)
\* the non-empty sequences over S of length at most n
SeqsUpTo(S, n) ==
    IF n = 0 THEN {}
    ELSE LET shorter == SeqsUpTo(S, n - 1)
         IN {<<x>> : x \in S} \cup shorter \cup {Append(q, x) : q \in shorter, x \in S}

ServicePaths == SeqsUpTo(ServiceNodes, MaxPathLen)

\* node vectors handed to spawn_vehicle_for_path: trips, with or without depots
\* Path::new accepts a node sequence only if it is a path in the network
ValidPaths == {q \in ServicePaths : IsPathInNetwork(q)}

\* node vectors handed to spawn_vehicle_for_path: trips, with or without depots
SpawnPaths ==
    ServicePaths
      \cup {<<sd>> \o q : sd \in StartDepotNodes, q \in ValidPaths}
      \cup {Append(q, ed) : ed \in EndDepotNodes, q \in ValidPaths}

\* the segments (first node, last node) handed to the reassign operations
Segments == {sg \in ServiceNodes \X ServiceNodes :
                 sg[1] = sg[2] \/ can_reach(sg[1], sg[2]) \/ can_reach(sg[2], sg[1])}

\* an id of no vehicle and no dummy
UnknownId == VehId(MaxCounter)

IdInputs(S) == (DOMAIN S.vehicles) \cup (DOMAIN S.tours) \cup (DOMAIN S.dummy_tours) \cup {UnknownId}

\* the inputs the caller hands to the operations
SpawnInputs == VehicleTypes \X SpawnPaths

ReplaceInputs(S) == IdInputs(S) \X VehicleTypes

AddPathInputs(S) == IdInputs(S) \X ValidPaths

\* the moves handed to the reassign operations: a segment of one tour goes to another tour
Moves(S) ==
    {m \in [segment : Segments, provider : IdInputs(S), receiver : IdInputs(S)] :
        m.provider # m.receiver}

\* an operation that writes into the receiver's own fields instead of clones
ReceiverWrittenInPlace(S, res) == res.sched

\* the receiver as the caller finds it after the call: every operation takes
\* &self and builds its result from clones of the fields
ReceiverAfter(S, res) == S

\* one call of a public operation: its name, its arguments and its result
Call(op, args, res) == [op |-> op, args |-> args, result |-> res]

SpawnVehicleForPathCall(S, in) ==
    Call("spawn_vehicle_for_path", <<in>>, spawn_vehicle_for_path(S, in[1], in[2]))

DeleteVehicleCall(S, v) == Call("delete_vehicle", <<v>>, delete_vehicle(S, v))

DeleteDummyCall(S, v) == Call("delete_dummy", <<v>>, delete_dummy(S, v))

SpawnVehicleToReplaceDummyTourCall(S, in) ==
    Call("spawn_vehicle_to_replace_dummy_tour", <<in>>, spawn_vehicle_to_replace_dummy_tour(S, in[1], in[2]))

AddPathToVehicleTourCall(S, in) ==
    Call("add_path_to_vehicle_tour", <<in>>, add_path_to_vehicle_tour(S, in[1], in[2]))

CautiousReassignCall(S, m) ==
    Call("cautious_reassign", <<m>>, cautious_reassign(S, m.segment[1], m.segment[2], m.provider, m.receiver))

OverrideReassignCall(S, m) ==
    Call("override_reassign", <<m>>, override_reassign(S, m.segment[1], m.segment[2], m.provider, m.receiver))

FitReassignCall(S, m) ==
    Call("fit_reassign", <<m>>, fit_reassign(S, m.segment[1], m.segment[2], m.provider, m.receiver))

ReassignEndDepotsGreedilyCall(S) ==
    Call("reassign_end_depots_greedily", <<>>, reassign_end_depots_greedily(S))

\* P holds of every call the caller can make on the schedule S
EveryCall(S, P(_)) ==
    /\ \A in \in SpawnInputs : P(SpawnVehicleForPathCall(S, in))
    /\ \A v \in IdInputs(S) : P(DeleteVehicleCall(S, v))
    /\ \A v \in IdInputs(S) : P(DeleteDummyCall(S, v))
    /\ \A in \in ReplaceInputs(S) : P(SpawnVehicleToReplaceDummyTourCall(S, in))
    /\ \A in \in AddPathInputs(S) : P(AddPathToVehicleTourCall(S, in))
    /\ \A m \in Moves(S) : P(CautiousReassignCall(S, m))
    /\ \A m \in Moves(S) : P(OverrideReassignCall(S, m))
    /\ \A m \in Moves(S) : P(FitReassignCall(S, m))
    /\ P(ReassignEndDepotsGreedilyCall(S))

\* P holds of some call the caller can make on the schedule S
SomeCall(S, P(_)) == ~EveryCall(S, LAMBDA c : ~P(c))

\* the bounds of the model: the caller makes no call whose result exceeds them
WithinBounds(call) ==
    /\ call.result.sched.vehicle_counter <= MaxCounter
    /\ Cardinality(DOMAIN call.result.sched.vehicles) <= MaxVehicles

\* the caller goes on with the returned schedule; after an error it keeps the one it has
ScheduleAfter(S, call) ==
    IF call.result.outcome = "ok" THEN call.result.sched ELSE ReceiverAfter(S, call.result)

SpawnVehicleForPath ==
    \E in \in SpawnInputs :
        LET call == SpawnVehicleForPathCall(schedule, in)
        IN WithinBounds(call) /\ schedule' = ScheduleAfter(schedule, call) /\ UNCHANGED <<search_vars, solver_vars>>

DeleteVehicle ==
    \E v \in IdInputs(schedule) :
        LET call == DeleteVehicleCall(schedule, v)
        IN WithinBounds(call) /\ schedule' = ScheduleAfter(schedule, call) /\ UNCHANGED <<search_vars, solver_vars>>

DeleteDummy ==
    \E v \in IdInputs(schedule) :
        LET call == DeleteDummyCall(schedule, v)
        IN WithinBounds(call) /\ schedule' = ScheduleAfter(schedule, call) /\ UNCHANGED <<search_vars, solver_vars>>

SpawnVehicleToReplaceDummyTour ==
    \E in \in ReplaceInputs(schedule) :
        LET call == SpawnVehicleToReplaceDummyTourCall(schedule, in)
        IN WithinBounds(call) /\ schedule' = ScheduleAfter(schedule, call) /\ UNCHANGED <<search_vars, solver_vars>>

AddPathToVehicleTour ==
    \E in \in AddPathInputs(schedule) :
        LET call == AddPathToVehicleTourCall(schedule, in)
        IN WithinBounds(call) /\ schedule' = ScheduleAfter(schedule, call) /\ UNCHANGED <<search_vars, solver_vars>>

CautiousReassign ==
    \E m \in Moves(schedule) :
        LET call == CautiousReassignCall(schedule, m)
        IN WithinBounds(call) /\ schedule' = ScheduleAfter(schedule, call) /\ UNCHANGED <<search_vars, solver_vars>>

OverrideReassign ==
    \E m \in Moves(schedule) :
        LET call == OverrideReassignCall(schedule, m)
        IN WithinBounds(call) /\ schedule' = ScheduleAfter(schedule, call) /\ UNCHANGED <<search_vars, solver_vars>>

FitReassign ==
    \E m \in Moves(schedule) :
        LET call == FitReassignCall(schedule, m)
        IN WithinBounds(call) /\ schedule' = ScheduleAfter(schedule, call) /\ UNCHANGED <<search_vars, solver_vars>>

ReassignEndDepotsGreedily ==
    LET call == ReassignEndDepotsGreedilyCall(schedule)
    IN WithinBounds(call) /\ schedule' = ScheduleAfter(schedule, call) /\ UNCHANGED <<search_vars, solver_vars>>

(***************************************************************************)
(* The instance, and the parts of the program that are not at work         *)
(***************************************************************************)
\* the instance of the Schedule model: passengers per trip, seats per type
ModelInstance ==
    instance = [demand |-> [n \in ServiceNodes |-> CASE n = 21 -> 3 [] n = 22 -> 2 [] OTHER -> 0],
                seats |-> [t \in VehicleTypes |-> IF t = 1 THEN 2 ELSE 1]]

\* Greedy::solve is not called
NoGreedy == greedy = "idle"

\* no Tour of src/schedule/tour.rs is held
NoTour == tour_nodes = <<>>

\* no Transition is built
NoTransition == transition = [tours |-> <<>>, built |-> "none", cycles |-> <<>>, total |-> 0]

(***************************************************************************)
(* Local search: the solutions, their objective values and neighborhoods   *)
(***************************************************************************)
\* Bounds of the model: number of solutions, largest objective value,
\* largest recursion_depth and largest recursion_width handed to an improver.
NumSolutions == 5

MaxObjective == 3

MaxDepth == 1

MaxWidth == 2

\* Bound of the model: largest number of threads of the worker pool.
MaxThreads == 3

Solutions == 0 .. (NumSolutions - 1)

\* LocalSearchable::neighborhood: the neighbors in iteration order; the last
\* solution has none
neighborhood(s) ==
    IF s = NumSolutions - 1 THEN <<>>
    ELSE <<(s + 1) % NumSolutions, (2 * s + 2) % NumSolutions>>

Improvers == {"Minimizer", "TakeFirstRecursion", "TakeAnyParallelRecursion"}

RecursionWidths == {None} \cup {Some(w) : w \in 1 .. MaxWidth}

\* Objective::evaluate followed by objective_value()
objective_value(s) == input.objective[s]

\* the comparison accepting ties
is_improvement_or_tie(value, to_beat) == value <= to_beat

\* the strict comparison every improver makes with the value to beat
is_improvement(value, to_beat) == value < to_beat

\* improve hands the objective value of its argument down every recursion
objective_to_beat == objective_value(input.solution)

RECURSIVE sort(_)
\* Vec::sort of evaluated solutions: stable, by objective value
sort(list) ==
    IF list = <<>> THEN <<>>
    ELSE LET i == MinOf({k \in DOMAIN list :
                           \A j \in DOMAIN list : objective_value(list[k]) <= objective_value(list[j])})
         IN <<list[i]>> \o sort(RemoveAt(list, i))

RECURSIVE dedup(_)
\* Vec::dedup / dedup_by on the objective value: of consecutive equal elements the first stays
dedup(list) ==
    IF Len(list) <= 1 THEN list
    ELSE LET rest == dedup(Tail(list))
         IN IF objective_value(list[1]) = objective_value(rest[1])
            THEN <<list[1]>> \o Tail(rest)
            ELSE <<list[1]>> \o rest

\* a truncate keeping one element too many
truncate_one_more(list, width) == SubSeq(list, 1, IF width + 1 < Len(list) THEN width + 1 ELSE Len(list))

truncate(list, width) == SubSeq(list, 1, IF width < Len(list) THEN width ELSE Len(list))

\* the closure's bookkeeping: push the neighbor, and with a recursion_width
\* sort, dedup and truncate
push_for_recursion(list, neighbor) ==
    IF input.recursion_width.some
    THEN truncate(dedup(sort(Append(list, neighbor))), input.recursion_width.val)
    ELSE Append(list, neighbor)

RECURSIVE flatten(_)
flatten(lists) == IF lists = <<>> THEN <<>> ELSE lists[1] \o flatten(Tail(lists))

\* solutions.iter().flat_map(|sol| sol.solution().neighborhood())
neighborhood_union(sols) == flatten([i \in DOMAIN sols |-> neighborhood(sols[i])])

\* the comparison of min_by turned around: the first of the maximal elements
max_by(list) ==
    list[MinOf({k \in DOMAIN list :
                  \A j \in DOMAIN list : objective_value(list[k]) >= objective_value(list[j])})]

\* Iterator::min_by: the first of the minimal elements
min_by(list) ==
    list[MinOf({k \in DOMAIN list :
                  \A j \in DOMAIN list : objective_value(list[k]) <= objective_value(list[j])})]

\* the union iterated from its end
next_neighbor_from_end(sols, n) == neighborhood_union(sols)[Len(neighborhood_union(sols)) - n]

\* Iterator::next on the union after n neighbors were taken
next_neighbor(sols, n) == neighborhood_union(sols)[n + 1]

NotReturned == [done |-> FALSE, value |-> None]

Returned(value) == [done |-> TRUE, value |-> value]

\* tasks whose found channel holds a signal before any success was received
spawn_already_signalled(sols) ==
    [i \in DOMAIN sols |->
        [pending |-> DOMAIN neighborhood(sols[i]), pushed |-> {}, matched |-> {},
         new_solutions |-> <<>>, found |-> 1, started |-> FALSE, finished |-> FALSE,
         sent |-> None]]

\* s.spawn for every solution: the task is queued in the pool, nothing is
\* evaluated yet, the found channel is empty; sent records what the task sends
\* on the success channel
spawn(sols) ==
    [i \in DOMAIN sols |->
        [pending |-> DOMAIN neighborhood(sols[i]), pushed |-> {}, matched |-> {},
         new_solutions |-> <<>>, found |-> 0, started |-> FALSE, finished |-> FALSE,
         sent |-> None]]

\* a coordinator keeping whatever success arrived last
keep_latest(res, new_sol) == Some(new_sol)

\* the coordinator keeps a received success if it has none or a worse one
keep_best(res, new_sol) ==
    IF ~res.some \/ objective_value(new_sol) < objective_value(res.val) THEN Some(new_sol) ELSE res

\* the pool threads in use: the scope closure, blocked in recv(), holds one,
\* every task that has started and not ended holds one
threads_in_use == 1 + Cardinality({w \in DOMAIN workers : workers[w].started /\ ~workers[w].finished})

\* no improver at work
NoSearch ==
    /\ input = [improver |-> "none", objective |-> [s \in Solutions |-> 0], solution |-> 0,
                recursion_depth |-> 0, recursion_width |-> None, threads |-> 1]
    /\ solutions = <<>>
    /\ remaining_recursion = 0
    /\ counter = 0
    /\ solutions_for_recursion = <<>>
    /\ workers = <<>>
    /\ success_channel = <<>>
    /\ failure_channel = <<>>
    /\ result = None
    /\ returned = NotReturned

(***************************************************************************)
(* Minimizer                                                               *)
(***************************************************************************)
MinimizerImprove ==
    /\ input.improver = "Minimizer"
    /\ ~returned.done
    /\ LET neighbors == neighborhood(input.solution)
       IN returned' =
              IF neighbors = <<>> THEN Returned(None)
              ELSE IF is_improvement(objective_value(min_by(neighbors)), objective_value(input.solution))
                   THEN Returned(Some(min_by(neighbors)))
                   ELSE Returned(None)
    /\ UNCHANGED <<schedule, solver_vars, input, solutions, remaining_recursion, counter, solutions_for_recursion,
                   workers, success_channel, failure_channel, result>>

(***************************************************************************)
(* TakeFirstRecursion                                                      *)
(***************************************************************************)
\* one turn of map + find: evaluate the next neighbor of the union, keep it
\* for the recursion, stop at a strict improvement
TakeFirstEvaluate ==
    /\ input.improver = "TakeFirstRecursion"
    /\ ~returned.done
    /\ counter < Len(neighborhood_union(solutions))
    /\ LET neighbor == next_neighbor(solutions, counter)
       IN /\ counter' = counter + 1
          /\ solutions_for_recursion' =
                 IF remaining_recursion > 0
                 THEN push_for_recursion(solutions_for_recursion, neighbor)
                 ELSE solutions_for_recursion
          /\ returned' = IF is_improvement(objective_value(neighbor), objective_to_beat)
                         THEN Returned(Some(neighbor)) ELSE returned
    /\ UNCHANGED <<schedule, solver_vars, input, solutions, remaining_recursion,
                   workers, success_channel, failure_channel, result>>

\* result.is_none() with recursion depth left
TakeFirstRecurse ==
    /\ input.improver = "TakeFirstRecursion"
    /\ ~returned.done
    /\ counter = Len(neighborhood_union(solutions))
    /\ remaining_recursion > 0
    /\ solutions' = solutions_for_recursion
    /\ remaining_recursion' = remaining_recursion - 1
    /\ counter' = 0
    /\ solutions_for_recursion' = <<>>
    /\ UNCHANGED <<schedule, solver_vars, input, workers, success_channel, failure_channel, result, returned>>

\* result.is_none() with no recursion depth left
TakeFirstGiveUp ==
    /\ input.improver = "TakeFirstRecursion"
    /\ ~returned.done
    /\ counter = Len(neighborhood_union(solutions))
    /\ remaining_recursion = 0
    /\ returned' = Returned(None)
    /\ UNCHANGED <<schedule, solver_vars, input, solutions, remaining_recursion, counter, solutions_for_recursion,
                   workers, success_channel, failure_channel, result>>

(***************************************************************************)
(* TakeAnyParallelRecursion                                                *)
(***************************************************************************)
Parallel == input.improver = "TakeAnyParallelRecursion" /\ ~returned.done

\* a thread of the pool that is free takes a queued task
WorkerStart ==
    /\ Parallel
    /\ threads_in_use < input.threads
    /\ \E w \in DOMAIN workers :
           /\ ~workers[w].started
           /\ workers' = [workers EXCEPT ![w].started = TRUE]
    /\ UNCHANGED <<schedule, solver_vars, input, solutions, remaining_recursion, counter, solutions_for_recursion,
                   success_channel, failure_channel, result, returned>>

\* first half of the find_any closure, under the new_solutions mutex: a
\* thread of the task w keeps the k-th neighbor for the recursion
WorkerPush ==
    /\ Parallel
    /\ remaining_recursion > 0
    /\ \E w \in DOMAIN workers : \E k \in workers[w].pending :
           /\ workers[w].started /\ ~workers[w].finished
           /\ workers' = [workers EXCEPT
                  ![w].pending = @ \ {k},
                  ![w].pushed = @ \cup {k},
                  ![w].new_solutions = push_for_recursion(@, neighborhood(solutions[w])[k])]
    /\ UNCHANGED <<schedule, solver_vars, input, solutions, remaining_recursion, counter, solutions_for_recursion,
                   success_channel, failure_channel, result, returned>>

\* a predicate that matches improving neighbors only
closure_matches_ignoring_found(value, found) == is_improvement(value, objective_to_beat)

\* the value of the find_any closure: the neighbor improves, or try_recv took
\* a found signal
closure_matches(value, found) == is_improvement(value, objective_to_beat) \/ found

\* second half of the closure, under the found_receiver mutex: try_recv, and
\* the neighbor matches when it improves or a found signal was taken
WorkerCheck ==
    /\ Parallel
    /\ \E w \in DOMAIN workers :
         \E k \in (IF remaining_recursion > 0 THEN workers[w].pushed ELSE workers[w].pending) :
           LET neighbor == neighborhood(solutions[w])[k]
               found == workers[w].found > 0
               matches == closure_matches(objective_value(neighbor), found)
           IN /\ workers[w].started /\ ~workers[w].finished
              /\ workers' = [workers EXCEPT
                     ![w].pending = @ \ {k},
                     ![w].pushed = @ \ {k},
                     ![w].found = IF found THEN @ - 1 ELSE @,
                     ![w].matched = IF matches THEN @ \cup {k} ELSE @]
    /\ UNCHANGED <<schedule, solver_vars, input, solutions, remaining_recursion, counter, solutions_for_recursion,
                   success_channel, failure_channel, result, returned>>

\* find_any has returned one of the matching neighbors: the task sends it if
\* it improves, and ends
WorkerFinishSome ==
    /\ Parallel
    /\ \E w \in DOMAIN workers : \E k \in workers[w].matched :
           LET sol == neighborhood(solutions[w])[k]
               improves == is_improvement(objective_value(sol), objective_to_beat)
           IN /\ workers[w].started /\ ~workers[w].finished
              /\ workers' = [workers EXCEPT ![w].finished = TRUE,
                                            ![w].sent = IF improves THEN Some(sol) ELSE None]
              /\ success_channel' = IF improves THEN Append(success_channel, sol) ELSE success_channel
    /\ UNCHANGED <<schedule, solver_vars, input, solutions, remaining_recursion, counter, solutions_for_recursion,
                   failure_channel, result, returned>>

\* find_any has returned None: every neighbor was evaluated and none matched;
\* the task sends its candidates and ends
WorkerFinishNone ==
    /\ Parallel
    /\ \E w \in DOMAIN workers :
           /\ workers[w].started /\ ~workers[w].finished
           /\ workers[w].pending = {} /\ workers[w].pushed = {} /\ workers[w].matched = {}
           /\ workers' = [workers EXCEPT ![w].finished = TRUE]
           /\ failure_channel' = Append(failure_channel, workers[w].new_solutions)
    /\ UNCHANGED <<schedule, solver_vars, input, solutions, remaining_recursion, counter, solutions_for_recursion,
                   success_channel, result, returned>>

\* success_receiver.recv() yields a solution: signal found to every task that
\* still listens and keep the solution if it is the best so far
CoordinatorReceive ==
    /\ Parallel
    /\ success_channel # <<>>
    /\ LET new_sol == Head(success_channel)
       IN /\ success_channel' = Tail(success_channel)
          /\ workers' = [w \in DOMAIN workers |->
                 IF workers[w].finished THEN workers[w]
                 ELSE [workers[w] EXCEPT !.found = @ + 1]]
          /\ result' = keep_best(result, new_sol)
    /\ UNCHANGED <<schedule, solver_vars, input, solutions, remaining_recursion, counter, solutions_for_recursion,
                   failure_channel, returned>>

\* a receive loop that ends as soon as the channel is empty
ScopeEndsOnEmptyChannel ==
    /\ Parallel
    /\ success_channel = <<>>

\* every sender is dropped and the channel is drained: recv() fails
ScopeEnds ==
    /\ Parallel
    /\ success_channel = <<>>
    /\ \A w \in DOMAIN workers : workers[w].finished

CoordinatorReturn ==
    /\ ScopeEnds
    /\ result.some \/ remaining_recursion = 0
    /\ returned' = Returned(result)
    /\ UNCHANGED <<schedule, solver_vars, input, solutions, remaining_recursion, counter, solutions_for_recursion,
                   workers, success_channel, failure_channel, result>>

CoordinatorRecurse ==
    /\ ScopeEnds
    /\ ~result.some
    /\ remaining_recursion > 0
    /\ solutions' = dedup(sort(flatten(failure_channel)))
    /\ remaining_recursion' = remaining_recursion - 1
    /\ workers' = spawn(solutions')
    /\ failure_channel' = <<>>
    /\ UNCHANGED <<schedule, solver_vars, input, counter, solutions_for_recursion, success_channel, result, returned>>

SearchInputs ==
    {i \in [improver : Improvers, objective : [Solutions -> 0 .. MaxObjective], solution : Solutions,
            recursion_depth : 0 .. MaxDepth, recursion_width : RecursionWidths,
            threads : 1 .. MaxThreads] :
        /\ i.improver = "Minimizer" => (i.recursion_depth = 0 /\ ~i.recursion_width.some)
        /\ i.improver # "TakeAnyParallelRecursion" => i.threads = 1}

\* improve is called on an evaluated solution
SearchInit ==
    /\ schedule = EmptySchedule
    /\ ModelInstance /\ NoGreedy /\ NoTour /\ NoTransition
    /\ input \in SearchInputs
    /\ solutions = <<input.solution>>
    /\ remaining_recursion = input.recursion_depth
    /\ counter = 0
    /\ solutions_for_recursion = <<>>
    /\ workers = IF input.improver = "TakeAnyParallelRecursion" THEN spawn(<<input.solution>>) ELSE <<>>
    /\ success_channel = <<>>
    /\ failure_channel = <<>>
    /\ result = None
    /\ returned = NotReturned

SearchNext ==
    \/ MinimizerImprove
    \/ TakeFirstEvaluate
    \/ TakeFirstRecurse
    \/ TakeFirstGiveUp
    \/ WorkerStart
    \/ WorkerPush
    \/ WorkerCheck
    \/ WorkerFinishSome
    \/ WorkerFinishNone
    \/ CoordinatorReceive
    \/ CoordinatorReturn
    \/ CoordinatorRecurse

SearchSpec == SearchInit /\ [][SearchNext]_vars

\* the pool keeps running whatever can run: a step that stays possible is taken
SearchFairSpec == SearchSpec /\ WF_vars(SearchNext)

(***************************************************************************)
(* The caller of the Schedule operations                                   *)
(***************************************************************************)
Init == schedule = EmptySchedule /\ NoSearch /\ ModelInstance /\ NoGreedy /\ NoTour /\ NoTransition

Next ==
    \/ SpawnVehicleForPath
    \/ DeleteVehicle
    \/ DeleteDummy
    \/ SpawnVehicleToReplaceDummyTour
    \/ AddPathToVehicleTour
    \/ CautiousReassign
    \/ OverrideReassign
    \/ FitReassign
    \/ ReassignEndDepotsGreedily

Spec == Init /\ [][Next]_vars

(***************************************************************************)
(* Passengers: the demand of the trips and the seats of the formations     *)
(***************************************************************************)
\* passengers of a service trip
demand(n) == instance.demand[n]

\* seats of a vehicle of the type
seats_of_type(t) == instance.seats[t]

\* The type of a member of a formation.  A formation holds the vehicle with the
\* type it was spawned with; for an id that is no longer in vehicles this is the
\* one type some depot can spawn.
type_of_member(S, v) ==
    IF v \in DOMAIN S.vehicles THEN S.vehicles[v]
    ELSE CHOOSE t \in VehicleTypes : \E d \in Depots : capacity_of(d, t) # Some(0)

RECURSIVE formation_seats(_, _)
\* TrainFormation::seats: the sum over the members
formation_seats(S, f) ==
    IF f = <<>> THEN 0 ELSE seats_of_type(type_of_member(S, Head(f))) + formation_seats(S, Tail(f))

\* the passengers of the trip that find no seat, subtracting without the test
unserved_at_unclamped(S, node) == demand(node) - formation_seats(S, S.train_formations[node])

\* the passengers of the trip that find no seat
unserved_at(S, node) ==
    LET served == formation_seats(S, S.train_formations[node])
    IN IF served > demand(node) THEN 0 ELSE demand(node) - served

RECURSIVE sum_unserved(_, _)
\* .map(..).sum() over the service nodes
sum_unserved(S, nodes) ==
    IF nodes = {} THEN 0
    ELSE LET n == CHOOSE x \in nodes : TRUE
         IN unserved_at(S, n) + sum_unserved(S, nodes \ {n})

number_of_unserved_passengers(S) == sum_unserved(S, ServiceNodes)

is_fully_covered(S, service_trip) ==
    formation_seats(S, S.train_formations[service_trip]) >= demand(service_trip)

(***************************************************************************)
(* What verify_consistency compares                                        *)
(***************************************************************************)
\* the vehicle ids occurring in some train formation
vehicles_from_train_formations(S) ==
    UNION {Range(S.train_formations[n]) : n \in DOMAIN S.train_formations}

\* the vehicle ids occurring in some spawned or despawned set
vehicles_from_depot_usage(S) ==
    UNION {S.depot_usage[k].spawned \cup S.depot_usage[k].despawned : k \in DOMAIN S.depot_usage}

\* the (spawned, despawned) pair of a depot and a type; a missing entry holds no vehicle
usage_of(S, d, t) ==
    IF <<d, t>> \in DOMAIN S.depot_usage THEN S.depot_usage[<<d, t>>]
    ELSE [spawned |-> {}, despawned |-> {}]

\* the real vehicles of type t whose tour starts / ends at depot d
vehicles_starting_at(S, d, t) ==
    {v \in (DOMAIN S.vehicles) \cap (DOMAIN S.tours) :
        S.vehicles[v] = t /\ start_depot(S.tours[v]) = StartDepotNode(d)}

vehicles_ending_at(S, d, t) ==
    {v \in (DOMAIN S.vehicles) \cap (DOMAIN S.tours) :
        S.vehicles[v] = t /\ end_depot(S.tours[v]) = EndDepotNode(d)}

\* how often the vehicle occurs in the formation
Occurrences(f, v) == Cardinality({i \in DOMAIN f : f[i] = v})

(***************************************************************************)
(* Claims                                                                  *)
(***************************************************************************)

\* C1: in every schedule reachable from the empty one by successful public
\* operations the id sets of vehicles, of tours, of the train formations and of
\* depot_usage coincide.
C1_IdSetsCoincide ==
    /\ DOMAIN schedule.vehicles = DOMAIN schedule.tours
    /\ DOMAIN schedule.vehicles = vehicles_from_train_formations(schedule)
    /\ DOMAIN schedule.vehicles = vehicles_from_depot_usage(schedule)

\* C2: in every reachable schedule spawned(d,t) is exactly the set of the real
\* vehicles of type t whose tour starts at depot d, and despawned(d,t) exactly
\* the set of those whose tour ends at d.
C2_DepotUsageMatchesTours ==
    \A d \in Depots, t \in VehicleTypes :
        /\ usage_of(schedule, d, t).spawned = vehicles_starting_at(schedule, d, t)
        /\ usage_of(schedule, d, t).despawned = vehicles_ending_at(schedule, d, t)

\* C3: in every reachable schedule, for every depot d and type t of finite
\* capacity, at most capacity(d,t) vehicles of type t have a tour starting at d.
C3_CapacityRespected ==
    \A d \in Depots, t \in VehicleTypes :
        capacity_of(d, t).some =>
            Cardinality(vehicles_starting_at(schedule, d, t)) <= capacity_of(d, t).val

\* C4: in every reachable schedule the train formation of every non-depot node
\* of a real vehicle's tour contains that vehicle exactly once, every vehicle of
\* a formation has the node in its tour, and no formation lists a vehicle twice.
C4_FormationsMatchTours ==
    /\ \A v \in DOMAIN schedule.tours : \A n \in Range(NonDepots(schedule.tours[v])) :
           Occurrences(schedule.train_formations[n], v) = 1
    /\ \A n \in DOMAIN schedule.train_formations : \A v \in Range(schedule.train_formations[n]) :
           /\ has_tour(schedule, v)
           /\ n \in Range(tour_of(schedule, v))
           /\ Occurrences(schedule.train_formations[n], v) = 1

\* C5: in every reachable schedule every real vehicle's tour starts with one
\* start depot, ends with one end depot, has no depot in between, has at least
\* one non-depot node, and consecutive nodes satisfy can_reach.
C5_ToursWellFormed ==
    \A v \in DOMAIN schedule.tours :
        HasDepotStructure(schedule.tours[v]) /\ IsPathInNetwork(schedule.tours[v])

\* C5 witness: a reassign succeeds here and update_tour re-chooses the end depot
\* of a vehicle that keeps its tour.
C5_DepotRechosen ==
    SomeCall(schedule, LAMBDA c :
        /\ c.op \in {"override_reassign", "fit_reassign", "cautious_reassign"}
        /\ c.result.outcome = "ok"
        /\ \E v \in (DOMAIN schedule.tours) \cap (DOMAIN c.result.sched.tours) :
               end_depot(c.result.sched.tours[v]) # end_depot(schedule.tours[v]))

C7_NoPanic ==
    EveryCall(schedule, LAMBDA c : c.result.outcome # "panic")

\* C8: a spawn_vehicle_for_path that succeeds with the new id v, followed by
\* delete_vehicle(v), succeeds and gives the schedule back, vehicle_counter apart.
C8_SpawnDeleteRoundTrip ==
    \A in \in SpawnInputs :
        LET spawned == spawn_vehicle_for_path(schedule, in[1], in[2])
            deleted == delete_vehicle(spawned.sched, spawned.new_id)
        IN spawned.outcome = "ok" =>
               /\ deleted.outcome = "ok"
               /\ [deleted.sched EXCEPT !.vehicle_counter = schedule.vehicle_counter] = schedule

\* C9: reassign_end_depots_greedily applied to its own result yields that
\* result again, in every field.
C9_ReassignIdempotent ==
    LET once == reassign_end_depots_greedily(schedule)
        twice == reassign_end_depots_greedily(once.sched)
    IN once.outcome = "ok" => (twice.outcome = "ok" /\ twice.sched = once.sched)

\* C10: whenever an improver returns Some(s'), the objective value of s' is
\* strictly lower than that of the solution handed to improve; the same holds of
\* the best success the parallel improver has received so far, at every
\* recursion depth and under every interleaving of its tasks.
C10_StrictImprovement ==
    /\ (returned.done /\ returned.value.some) =>
           objective_value(returned.value.val) < objective_value(input.solution)
    /\ result.some => objective_value(result.val) < objective_value(input.solution)
    /\ \A i \in DOMAIN success_channel :
           objective_value(success_channel[i]) < objective_value(input.solution)

\* C10 witness: the parallel improver returns Some from a recursion level, and
\* one of that level's tasks was cancelled on a neighbor that does not improve.
C10_ReturnedWithCancelledWorker ==
    /\ input.improver = "TakeAnyParallelRecursion"
    /\ returned.done /\ returned.value.some
    /\ remaining_recursion < input.recursion_depth
    /\ \E w \in DOMAIN workers : \E k \in workers[w].matched :
           objective_value(neighborhood(solutions[w])[k]) >= objective_value(input.solution)

\* the successes the tasks of the current round have sent
successes_sent == {workers[w].sent.val : w \in {x \in DOMAIN workers : workers[x].sent.some}}

\* C11: when the parallel improver returns a solution, it is one of the
\* successes its tasks sent in that round and none of them has a smaller
\* objective value, whatever the order of arrival.
C11_BestOfSuccesses ==
    (input.improver = "TakeAnyParallelRecursion" /\ returned.done /\ returned.value.some) =>
        /\ returned.value.val \in successes_sent
        /\ \A sol \in successes_sent : objective_value(returned.value.val) <= objective_value(sol)

\* C11 witness: the improver has returned from a round in which two tasks sent
\* successes of different objective values.
C11_TwoSuccessesReturned ==
    /\ input.improver = "TakeAnyParallelRecursion"
    /\ returned.done /\ returned.value.some
    /\ \E a, b \in successes_sent : objective_value(a) < objective_value(b)

\* C12: TakeAnyParallelRecursion::improve always returns, with any number of
\* pool threads.
C12_AlwaysReturns ==
    (input.improver = "TakeAnyParallelRecursion") => <>returned.done

\* the neighbor improves on the solution handed to improve
Improves(sol) == objective_value(sol) < objective_value(input.solution)

\* C13: when TakeFirstRecursion returns a solution it is the neighbor scanned
\* last, it improves strictly, no neighbor scanned before it does, and nothing
\* after it was evaluated; when the incumbent's own neighborhood holds an
\* improvement the result is the first one in iteration order, a function of
\* the incumbent and the iteration order alone.
C13_FirstImprovementInOrder ==
    (input.improver = "TakeFirstRecursion" /\ returned.done) =>
        LET scanned == neighborhood_union(solutions)
            own == neighborhood(input.solution)
            improving == {i \in DOMAIN own : Improves(own[i])}
        IN /\ returned.value.some =>
                  /\ counter \in DOMAIN scanned
                  /\ returned.value.val = scanned[counter]
                  /\ Improves(scanned[counter])
                  /\ \A j \in 1 .. (counter - 1) : ~Improves(scanned[j])
           /\ improving # {} =>
                  /\ returned.value = Some(own[MinOf(improving)])
                  /\ remaining_recursion = input.recursion_depth
                  /\ counter = MinOf(improving)

\* C13 witness: TakeFirstRecursion has returned the first improvement although
\* the next neighbor, never evaluated, is better still.
C13_ReturnedBeforeBetter ==
    /\ input.improver = "TakeFirstRecursion"
    /\ returned.done /\ returned.value.some
    /\ counter < Len(neighborhood_union(solutions))
    /\ objective_value(neighborhood_union(solutions)[counter + 1]) < objective_value(returned.value.val)

\* the neighbors the recursion must start from after the given scan: with a
\* width the first scanned neighbor of each of the width smallest objective
\* values, ascending; without a width every scanned neighbor
expected_for_recursion(scanned) ==
    IF input.recursion_width.some
    THEN LET values == {objective_value(scanned[i]) : i \in DOMAIN scanned}
             best == {v \in values : Cardinality({u \in values : u < v}) < input.recursion_width.val}
             firsts == {i \in DOMAIN scanned :
                          /\ objective_value(scanned[i]) \in best
                          /\ \A j \in 1 .. (i - 1) : objective_value(scanned[j]) # objective_value(scanned[i])}
             order == SortByKey(firsts, [i \in firsts |-> objective_value(scanned[i])])
         IN [k \in DOMAIN order |-> scanned[order[k]]]
    ELSE scanned

\* what holds of TakeFirstRecursion in every state
TakeFirstScanInvariant ==
    input.improver = "TakeFirstRecursion" =>
        LET union == neighborhood_union(solutions)
        IN /\ remaining_recursion \in 0 .. input.recursion_depth
           /\ (remaining_recursion > 0 /\ ~returned.done) =>
                  solutions_for_recursion = expected_for_recursion(SubSeq(union, 1, counter))
           /\ (returned.done /\ returned.value.some) =>
                  /\ Improves(union[counter])
                  /\ \A j \in 1 .. (counter - 1) : ~Improves(union[j])
           /\ (returned.done /\ ~returned.value.some) =>
                  /\ remaining_recursion = 0
                  /\ counter = Len(union)
                  /\ \A j \in DOMAIN union : ~Improves(union[j])

\* what holds of every step in which TakeFirstRecursion changes the depth
TakeFirstRecursionStep ==
    (input.improver = "TakeFirstRecursion" /\ remaining_recursion' # remaining_recursion) =>
        LET union == neighborhood_union(solutions)
        IN /\ remaining_recursion > 0
           /\ remaining_recursion' = remaining_recursion - 1
           /\ counter = Len(union)
           /\ \A j \in DOMAIN union : ~Improves(union[j])
           /\ solutions' = expected_for_recursion(union)

\* C14: TakeFirstRecursion recurses only after a scan without improvement and
\* with depth left, with the depth decreased by one, into the neighborhoods of
\* the width best scanned neighbors with equal objective values collapsed (all
\* scanned neighbors without a width); it makes at most depth + 1 scans, stops
\* at the first improvement and returns None only when the depth is exhausted.
C14_RecursionIntoBestNeighbors ==
    []TakeFirstScanInvariant /\ [][TakeFirstRecursionStep]_vars

\* C14 witness: TakeFirstRecursion with a width has recursed, and the scan
\* before held more distinct objective values than the width.
C14_RecursedWithTruncation ==
    /\ input.improver = "TakeFirstRecursion"
    /\ input.recursion_width.some
    /\ remaining_recursion < input.recursion_depth
    /\ LET own == neighborhood(input.solution)
       IN Cardinality({objective_value(own[i]) : i \in DOMAIN own}) > input.recursion_width.val

\* C15: Minimizer::improve returns Some(n) exactly when the neighborhood is not
\* empty and its minimal objective value is strictly below the incumbent's; n
\* is then a neighbor of that minimal value.
C15_MinimizerReturnsMinimum ==
    (input.improver = "Minimizer" /\ returned.done) =>
        LET own == neighborhood(input.solution)
            values == {objective_value(own[i]) : i \in DOMAIN own}
            improves == own # <<>> /\ \E v \in values : v < objective_value(input.solution)
        IN /\ returned.value.some <=> improves
           /\ returned.value.some =>
                  /\ \E i \in DOMAIN own : own[i] = returned.value.val
                  /\ \A v \in values : objective_value(returned.value.val) <= v

\* C15 witness: the Minimizer has returned the second neighbor, the minimum,
\* although the first one improves as well.
C15_ReturnedMinimumNotFirst ==
    /\ input.improver = "Minimizer"
    /\ returned.done /\ returned.value.some
    /\ Len(neighborhood(input.solution)) >= 2
    /\ Improves(neighborhood(input.solution)[1])
    /\ returned.value.val = neighborhood(input.solution)[2]
    /\ objective_value(neighborhood(input.solution)[2]) < objective_value(neighborhood(input.solution)[1])

\* the depot can take one more vehicle of the type: no limit, or fewer
\* vehicles of the type start there than its capacity
has_room(S, d, t) ==
    ~capacity_of(d, t).some \/ Cardinality(vehicles_starting_at(S, d, t)) < capacity_of(d, t).val

\* C16: spawn_vehicle_for_path returns an error when the path does not begin
\* with a depot and no start depot can take one more vehicle of the type, and
\* when it begins with a start depot that cannot take one more.
C16_NoCapacityIsError ==
    \A in \in SpawnInputs :
        LET t == in[1]
            nodes == in[2]
            no_room == \/ ~IsDepot(nodes[1]) /\ \A d \in Depots : ~has_room(schedule, d, t)
                       \/ IsStartDepot(nodes[1]) /\ ~has_room(schedule, get_depot_id(nodes[1]), t)
        IN (nodes # <<>> /\ no_room) => spawn_vehicle_for_path(schedule, t, nodes).outcome = "err"

\* C17: a successful spawn_vehicle_for_path creates the vehicle named after the
\* receiver's vehicle_counter, of the given type, in vehicles, tours and
\* vehicle_ids_sorted; its tour is the given nodes with the missing depots
\* added; the vehicle is appended to the formation of every non-depot node of
\* the path, all other formations, vehicles, tours and the dummy tours are
\* unchanged, and vehicle_counter is one higher.
C17_SpawnEffect ==
    \A in \in SpawnInputs :
        LET t == in[1]
            nodes == in[2]
            r == spawn_vehicle_for_path(schedule, t, nodes)
            v == VehId(schedule.vehicle_counter)
        IN r.outcome = "ok" =>
               /\ r.new_id = v
               /\ v \notin DOMAIN schedule.vehicles
               /\ DOMAIN r.sched.vehicles = (DOMAIN schedule.vehicles) \cup {v}
               /\ DOMAIN r.sched.tours = (DOMAIN schedule.tours) \cup {v}
               /\ r.sched.vehicles[v] = t
               /\ \A u \in DOMAIN schedule.vehicles :
                      r.sched.vehicles[u] = schedule.vehicles[u] /\ r.sched.tours[u] = schedule.tours[u]
               /\ Range(r.sched.vehicle_ids_sorted) = Range(schedule.vehicle_ids_sorted) \cup {v}
               /\ Len(r.sched.vehicle_ids_sorted) = Len(schedule.vehicle_ids_sorted) + 1
               /\ \E pre \in {<<>>} \cup {<<d>> : d \in StartDepotNodes},
                     post \in {<<>>} \cup {<<d>> : d \in EndDepotNodes} :
                      /\ pre = <<>> <=> IsDepot(nodes[1])
                      /\ post = <<>> <=> IsDepot(nodes[Len(nodes)])
                      /\ r.sched.tours[v] = pre \o nodes \o post
               /\ \A n \in DOMAIN schedule.train_formations :
                      r.sched.train_formations[n] =
                          IF n \in Range(nodes) THEN Append(schedule.train_formations[n], v)
                          ELSE schedule.train_formations[n]
               /\ r.sched.dummy_tours = schedule.dummy_tours
               /\ r.sched.dummy_ids_sorted = schedule.dummy_ids_sorted
               /\ r.sched.vehicle_counter = schedule.vehicle_counter + 1

\* C17 witness: a spawn succeeds here on a trip that another vehicle covers already.
C17_SpawnOntoCoveredTrip ==
    \E in \in SpawnInputs :
        /\ spawn_vehicle_for_path(schedule, in[1], in[2]).outcome = "ok"
        /\ \E n \in Range(in[2]) : ~IsDepot(n) /\ schedule.train_formations[n] # <<>>

\* C18: delete_vehicle on a real vehicle returns a schedule without the id in
\* vehicles, tours, vehicle_ids_sorted, the formations and the depot usage, and
\* with everything else as before; on a dummy it returns an error.
C18_DeleteEffect ==
    /\ \A v \in DOMAIN schedule.vehicles :
           LET r == delete_vehicle(schedule, v)
           IN /\ r.outcome = "ok"
              /\ v \notin DOMAIN r.sched.vehicles
              /\ v \notin DOMAIN r.sched.tours
              /\ v \notin Range(r.sched.vehicle_ids_sorted)
              /\ v \notin vehicles_from_train_formations(r.sched)
              /\ v \notin vehicles_from_depot_usage(r.sched)
              /\ \A u \in (DOMAIN schedule.vehicles) \ {v} :
                     r.sched.vehicles[u] = schedule.vehicles[u] /\ r.sched.tours[u] = schedule.tours[u]
              /\ r.sched.dummy_tours = schedule.dummy_tours
    /\ \A d \in DOMAIN schedule.dummy_tours : delete_vehicle(schedule, d).outcome = "err"

\* the sequence without the element
Without(seq, x) == SelectSeq(seq, LAMBDA y : y # x)

\* C19: delete_dummy returns an error for an id that is no dummy of the
\* schedule; for a dummy the result is the receiver with the id removed from
\* dummy_tours and dummy_ids_sorted and every other field unchanged.
C19_DeleteDummyFrame ==
    \A id \in IdInputs(schedule) :
        LET r == delete_dummy(schedule, id)
        IN IF id \notin DOMAIN schedule.dummy_tours
           THEN r.outcome = "err"
           ELSE /\ r.outcome = "ok"
                /\ r.sched = [schedule EXCEPT
                       !.dummy_tours = [d \in (DOMAIN schedule.dummy_tours) \ {id} |-> schedule.dummy_tours[d]],
                       !.dummy_ids_sorted = Without(schedule.dummy_ids_sorted, id)]
                /\ id \notin Range(r.sched.dummy_ids_sorted)

\* C19 witness: the schedule has a dummy and delete_dummy removes it.
C19_DummyDeleted ==
    \E id \in DOMAIN schedule.dummy_tours : delete_dummy(schedule, id).outcome = "ok"

\* C20: spawn_vehicle_to_replace_dummy_tour gives what delete_dummy followed by
\* spawn_vehicle_for_path over the dummy's nodes gives: the same schedule on
\* success, and the error of the failing step otherwise.
C20_ReplaceIsDeleteThenSpawn ==
    \A in \in ReplaceInputs(schedule) :
        LET dummy == in[1]
            t == in[2]
            r == spawn_vehicle_to_replace_dummy_tour(schedule, dummy, t)
            deleted == delete_dummy(schedule, dummy)
            composed == IF deleted.outcome # "ok" THEN deleted
                        ELSE spawn_vehicle_for_path(deleted.sched, t, schedule.dummy_tours[dummy])
        IN /\ r.outcome = composed.outcome
           /\ r.outcome = "ok" => r.sched = composed.sched
           /\ r.outcome = "ok" => dummy \notin DOMAIN r.sched.dummy_tours

\* the moves whose provider and receiver both have a tour in the schedule
MovesBetweenTours(S) == {m \in Moves(S) : has_tour(S, m.provider) /\ has_tour(S, m.receiver)}

\* C21: cautious_reassign returns an error whenever the receiver's conflict with
\* the segment is non-empty; when the conflict is empty it returns what
\* override_reassign returns for the same arguments, and a schedule it returns
\* has no dummy tour the receiver schedule did not have.
C21_CautiousAbortsOnConflict ==
    \A m \in MovesBetweenTours(schedule) :
        LET r == cautious_reassign(schedule, m.segment[1], m.segment[2], m.provider, m.receiver)
            o == override_reassign(schedule, m.segment[1], m.segment[2], m.provider, m.receiver)
        IN IF conflict(schedule, m.segment[1], m.segment[2], m.receiver) # <<>>
           THEN r.outcome = "err"
           ELSE /\ r.outcome = o.outcome
                /\ r.outcome = "ok" =>
                       /\ r.sched = o.sched
                       /\ o.new_id = NoId
                       /\ DOMAIN r.sched.dummy_tours \subseteq DOMAIN schedule.dummy_tours

\* C21 witness: on this schedule one move is refused only for its conflict
\* (override_reassign carries it out) and another move without conflict succeeds.
C21_RefusedAndDelegated ==
    /\ \E m \in MovesBetweenTours(schedule) :
           /\ conflict(schedule, m.segment[1], m.segment[2], m.receiver) # <<>>
           /\ override_reassign(schedule, m.segment[1], m.segment[2], m.provider, m.receiver).outcome = "ok"
           /\ cautious_reassign(schedule, m.segment[1], m.segment[2], m.provider, m.receiver).outcome = "err"
    /\ \E m \in MovesBetweenTours(schedule) :
           /\ conflict(schedule, m.segment[1], m.segment[2], m.receiver) = <<>>
           /\ cautious_reassign(schedule, m.segment[1], m.segment[2], m.provider, m.receiver).outcome = "ok"

\* C22: a successful override_reassign returns a new dummy id exactly when the
\* insertion displaces nodes of the receiver's tour; then the id is built from
\* the receiver schedule's vehicle_counter, the dummy's tour is the displaced
\* nodes, the id is registered in dummy_ids_sorted, a real receiver is in none
\* of their formations and vehicle_counter is one higher.  Otherwise it returns
\* no id, adds no dummy tour and leaves vehicle_counter as it is.
C22_DummyForDisplacedNodes ==
    \A m \in MovesBetweenTours(schedule) :
        LET r == override_reassign(schedule, m.segment[1], m.segment[2], m.provider, m.receiver)
            displaced == conflict(schedule, m.segment[1], m.segment[2], m.receiver)
            d == DummyId(schedule.vehicle_counter)
        IN r.outcome = "ok" =>
               IF displaced # <<>>
               THEN /\ r.new_id = d
                    /\ d \in DOMAIN r.sched.dummy_tours
                    /\ r.sched.dummy_tours[d] = displaced
                    /\ d \in Range(r.sched.dummy_ids_sorted)
                    /\ is_vehicle(schedule, m.receiver) =>
                           \A n \in Range(displaced) : m.receiver \notin Range(r.sched.train_formations[n])
                    /\ r.sched.vehicle_counter = schedule.vehicle_counter + 1
               ELSE /\ r.new_id = NoId
                    /\ DOMAIN r.sched.dummy_tours \subseteq DOMAIN schedule.dummy_tours
                    /\ Range(r.sched.dummy_ids_sorted) \subseteq Range(schedule.dummy_ids_sorted)
                    /\ r.sched.vehicle_counter = schedule.vehicle_counter

\* C22 witness: an override_reassign into the tour of a real vehicle succeeds
\* here and displaces nodes, and another one succeeds and displaces none.
C22_DisplacedFromRealReceiver ==
    /\ \E m \in MovesBetweenTours(schedule) :
           /\ is_vehicle(schedule, m.receiver)
           /\ conflict(schedule, m.segment[1], m.segment[2], m.receiver) # <<>>
           /\ override_reassign(schedule, m.segment[1], m.segment[2], m.provider, m.receiver).outcome = "ok"
    /\ \E m \in MovesBetweenTours(schedule) :
           /\ conflict(schedule, m.segment[1], m.segment[2], m.receiver) = <<>>
           /\ override_reassign(schedule, m.segment[1], m.segment[2], m.provider, m.receiver).outcome = "ok"

\* the non-depot nodes of the tour the id has in the schedule (none without a tour)
trips_of(S, v) == IF has_tour(S, v) THEN Range(NonDepots(tour_of(S, v))) ELSE {}

\* C23: a successful fit_reassign displaces no node of the receiver and creates
\* no dummy: the receiver keeps every node it had, the nodes it gains are nodes
\* of the segment, every node of the segment it did not gain is still in the
\* provider's tour, both resulting tours are paths in the network, and neither
\* the number of dummy tours nor vehicle_counter grows.
C23_FitDisplacesNothing ==
    \A m \in MovesBetweenTours(schedule) :
        LET r == fit_reassign(schedule, m.segment[1], m.segment[2], m.provider, m.receiver)
            segment == sub_path(tour_of(schedule, m.provider), m.segment[1], m.segment[2])
            gained == trips_of(r.sched, m.receiver) \ trips_of(schedule, m.receiver)
        IN r.outcome = "ok" =>
               /\ has_tour(r.sched, m.receiver)
               /\ trips_of(schedule, m.receiver) \subseteq trips_of(r.sched, m.receiver)
               /\ gained \subseteq Range(segment.val)
               /\ Range(segment.val) \ gained \subseteq trips_of(r.sched, m.provider)
               /\ IsPathInNetwork(tour_of(r.sched, m.receiver))
               /\ has_tour(r.sched, m.provider) => IsPathInNetwork(tour_of(r.sched, m.provider))
               /\ Cardinality(DOMAIN r.sched.dummy_tours) <= Cardinality(DOMAIN schedule.dummy_tours)
               /\ r.sched.vehicle_counter <= schedule.vehicle_counter

\* C23 witness: a fit_reassign succeeds here that moves one node of its segment
\* and leaves another one, which conflicts with the receiver's tour, with the provider.
C23_PartlyMoved ==
    \E m \in MovesBetweenTours(schedule) :
        LET r == fit_reassign(schedule, m.segment[1], m.segment[2], m.provider, m.receiver)
            segment == sub_path(tour_of(schedule, m.provider), m.segment[1], m.segment[2])
            gained == trips_of(r.sched, m.receiver) \ trips_of(schedule, m.receiver)
        IN /\ r.outcome = "ok"
           /\ gained # {}
           /\ Range(segment.val) \ gained # {}
           /\ conflict(schedule, m.segment[1], m.segment[2], m.receiver) # <<>>

\* the id occurs nowhere in the schedule as a real vehicle
absent_as_vehicle(S, v) ==
    /\ v \notin DOMAIN S.vehicles
    /\ v \notin DOMAIN S.tours
    /\ v \notin Range(S.vehicle_ids_sorted)
    /\ v \notin vehicles_from_train_formations(S)
    /\ v \notin vehicles_from_depot_usage(S)

\* the id occurs nowhere in the schedule as a dummy
absent_as_dummy(S, v) == v \notin DOMAIN S.dummy_tours /\ v \notin Range(S.dummy_ids_sorted)

\* the provider is gone from the schedule the call returned
provider_deleted(S, provider, res) ==
    res.outcome = "ok" =>
        IF is_dummy(S, provider) THEN absent_as_dummy(res.sched, provider)
        ELSE absent_as_vehicle(res.sched, provider)

\* C24: when a successful override_reassign or fit_reassign moves every
\* non-depot node of the provider away, the provider is deleted: a real one is
\* in none of vehicles, tours, vehicle_ids_sorted, the train formations and the
\* spawned and despawned sets, a dummy in none of dummy_tours and dummy_ids_sorted.
C24_EmptiedProviderDeleted ==
    \A m \in MovesBetweenTours(schedule) :
        LET removed == tour_remove(tour_of(schedule, m.provider), m.segment[1], m.segment[2])
            segment == sub_path(tour_of(schedule, m.provider), m.segment[1], m.segment[2])
            fit == fit_path_into_tour(schedule, segment.val, m.provider, m.receiver)
        IN /\ (removed.ok /\ removed.val.shrunk = <<>>) =>
                  provider_deleted(schedule, m.provider,
                      override_reassign(schedule, m.segment[1], m.segment[2], m.provider, m.receiver))
           /\ (segment.ok /\ fit.ok /\ fit.val.provider = <<>>) =>
                  provider_deleted(schedule, m.provider,
                      fit_reassign(schedule, m.segment[1], m.segment[2], m.provider, m.receiver))

\* the depot has room for the vehicle v of type t in the schedule: no limit, or
\* fewer other vehicles of the type start there than its capacity
has_room_for(S, d, t, v) ==
    ~capacity_of(d, t).some \/ Cardinality(vehicles_starting_at(S, d, t) \ {v}) < capacity_of(d, t).val

\* the nearest start depot to the first trip of v's tour that has room for v,
\* and the nearest end depot from its last trip
depots_are_nearest(S, v) ==
    LET tour == S.tours[v]
        t == S.vehicles[v]
        starts == start_depots_sorted_by_distance_to(start_location(first_non_depot(tour)))
        ends == end_depots_sorted_by_distance_from(end_location(last_non_depot(tour)))
        with_room == {i \in DOMAIN starts : has_room_for(S, get_depot_id(starts[i]), t, v)}
    IN /\ with_room # {}
       /\ start_depot(tour) = starts[MinOf(with_room)]
       /\ end_depot(tour) = ends[1]

\* the real vehicles whose tour the call changed
vehicles_with_changed_tour(S, res) ==
    {v \in (DOMAIN res.sched.vehicles) \cap (DOMAIN res.sched.tours) :
        v \notin DOMAIN S.tours \/ res.sched.tours[v] # S.tours[v]}

\* C25: after a successful add_path_to_vehicle_tour, override_reassign or
\* fit_reassign every real vehicle whose tour changed starts at the nearest
\* start depot to its first trip that has room for it in the returned schedule
\* and ends at the nearest end depot from its last trip.
C25_DepotsNearestAfterChange ==
    EveryCall(schedule, LAMBDA c :
        (c.op \in {"add_path_to_vehicle_tour", "override_reassign", "fit_reassign"} /\ c.result.outcome = "ok") =>
            \A v \in vehicles_with_changed_tour(schedule, c.result) : depots_are_nearest(c.result.sched, v))

\* C26: a successful add_path_to_vehicle_tour(v, path) returns a schedule in
\* which v's tour is the old tour with the path inserted, v is in the formation
\* of every node of the path and in the formation of no other displaced node,
\* no dummy tour is created, and v is in the spawned set of its tour's start
\* depot and in the despawned set of its end depot.
C26_AddPathEffect ==
    \A in \in AddPathInputs(schedule) :
        LET v == in[1]
            path == in[2]
            r == add_path_to_vehicle_tour(schedule, v, path)
            inserted == insert_path(schedule.tours[v], path)
            t == schedule.vehicles[v]
        IN r.outcome = "ok" =>
               /\ r.sched.tours[v] = inserted.tour
               /\ \A n \in Range(path) : v \in Range(r.sched.train_formations[n])
               /\ \A n \in Range(inserted.replaced) \ Range(path) : v \notin Range(r.sched.train_formations[n])
               /\ r.sched.dummy_tours = schedule.dummy_tours
               /\ r.sched.dummy_ids_sorted = schedule.dummy_ids_sorted
               /\ v \in usage_of(r.sched, get_depot_id(start_depot(r.sched.tours[v])), t).spawned
               /\ v \in usage_of(r.sched, get_depot_id(end_depot(r.sched.tours[v])), t).despawned

\* C27: number_of_unserved_passengers is 0 exactly when every service node is
\* fully covered (the seats of its formation are at least its demand), and it
\* is positive exactly when some service node has fewer seats than demand.
C27_UnservedIffUncovered ==
    /\ number_of_unserved_passengers(schedule) >= 0
    /\ number_of_unserved_passengers(schedule) = 0
           <=> \A n \in ServiceNodes : is_fully_covered(schedule, n)
    /\ number_of_unserved_passengers(schedule) > 0
           <=> \E n \in ServiceNodes :
                   formation_seats(schedule, schedule.train_formations[n]) < demand(n)

\* C27 witness: every trip is fully covered and one of them has more seats than passengers.
C27_CoveredWithSpareSeats ==
    /\ \A n \in ServiceNodes : is_fully_covered(schedule, n)
    /\ \E n \in ServiceNodes :
           demand(n) > 0 /\ formation_seats(schedule, schedule.train_formations[n]) > demand(n)

\* the ids of the vector are strictly increasing
strictly_increasing(ids) == \A i \in 1..(Len(ids) - 1) : IdLess(ids[i], ids[i + 1])

\* C28: in every reachable schedule vehicle_ids_sorted is strictly increasing
\* and holds exactly the keys of vehicles, and dummy_ids_sorted is strictly
\* increasing and holds exactly the keys of dummy_tours.
C28_SortedIdsMatchKeys ==
    /\ strictly_increasing(schedule.vehicle_ids_sorted)
    /\ Range(schedule.vehicle_ids_sorted) = DOMAIN schedule.vehicles
    /\ strictly_increasing(schedule.dummy_ids_sorted)
    /\ Range(schedule.dummy_ids_sorted) = DOMAIN schedule.dummy_tours

\* C28 witness: a reassign has deleted the emptied provider veh000 and created a
\* dummy; veh001 is still there.
C28_ProviderDeletedDummyCreated ==
    /\ VehId(0) \notin DOMAIN schedule.vehicles
    /\ VehId(1) \in DOMAIN schedule.vehicles
    /\ schedule.dummy_ids_sorted # <<>>

\* the nodes a reassign call moves from the provider to the receiver
moved_by(S, c) ==
    LET m == c.args[1]
        segment == sub_path(tour_of(S, m.provider), m.segment[1], m.segment[2])
    IN IF c.op = "fit_reassign"
       THEN fit_path_into_tour(S, segment.val, m.provider, m.receiver).val.moved
       ELSE tour_remove(tour_of(S, m.provider), m.segment[1], m.segment[2]).val.path

\* the nodes a reassign call displaces from the receiver's tour
displaced_by(S, c) ==
    LET m == c.args[1]
    IN IF c.op = "override_reassign" THEN conflict(S, m.segment[1], m.segment[2], m.receiver) ELSE <<>>

\* the formation without the first occurrence of the vehicle
without_first(f, v) == RemoveAt(f, IndexOf(f, v))

\* the formation of a moved node after a move with a dummy on one side at least
formation_after_move(S, m, n) ==
    IF is_dummy(S, m.receiver) /\ is_dummy(S, m.provider) THEN S.train_formations[n]
    ELSE IF is_dummy(S, m.receiver) THEN without_first(S.train_formations[n], m.provider)
    ELSE Append(S.train_formations[n], m.receiver)

\* a successful reassign call with a dummy as provider or as receiver
is_move_with_dummy(S, c) ==
    /\ c.op \in {"cautious_reassign", "override_reassign", "fit_reassign"}
    /\ c.result.outcome = "ok"
    /\ is_dummy(S, c.args[1].provider) \/ is_dummy(S, c.args[1].receiver)

no_dummy_in_formations(S) ==
    \A n \in DOMAIN S.train_formations : \A v \in Range(S.train_formations[n]) : v[1] # "dummy"

\* C29: no formation of a reachable schedule contains a dummy id.  A successful
\* move with a dummy on one side leaves in the formation of every moved node
\* the old formation without the real provider (dummy receiver), with the real
\* receiver appended (dummy provider), or unchanged (two dummies), and a move
\* between two dummies changes no formation at all.
C29_FormationsAfterMoveWithDummy ==
    /\ no_dummy_in_formations(schedule)
    /\ EveryCall(schedule, LAMBDA c :
           is_move_with_dummy(schedule, c) =>
               /\ no_dummy_in_formations(c.result.sched)
               /\ \A n \in Range(moved_by(schedule, c)) :
                      c.result.sched.train_formations[n] = formation_after_move(schedule, c.args[1], n)
               /\ (is_dummy(schedule, c.args[1].provider) /\ is_dummy(schedule, c.args[1].receiver)) =>
                      c.result.sched.train_formations = schedule.train_formations)

\* the ids the schedule holds: in its maps, its sorted vectors and its formations
ids_present(S) ==
    (DOMAIN S.vehicles) \cup (DOMAIN S.tours) \cup (DOMAIN S.dummy_tours)
        \cup Range(S.vehicle_ids_sorted) \cup Range(S.dummy_ids_sorted)
        \cup vehicles_from_train_formations(S) \cup vehicles_from_depot_usage(S)

\* every id of the schedule carries a number below vehicle_counter, and an id a
\* spawn_vehicle_for_path or an override_reassign allocates is not in the schedule
ids_below_counter ==
    /\ \A id \in ids_present(schedule) : id[2] < schedule.vehicle_counter
    /\ EveryCall(schedule, LAMBDA c :
           (c.result.outcome = "ok" /\ c.result.new_id # NoId) =>
               /\ c.result.new_id \notin ids_present(schedule)
               /\ c.result.new_id \in ids_present(c.result.sched)
               /\ c.result.sched.vehicle_counter > schedule.vehicle_counter)

\* no operation returns a schedule with a smaller vehicle_counter
counter_never_decreases == schedule'.vehicle_counter >= schedule.vehicle_counter

\* C30: along any chain of operations vehicle_counter never decreases, every id
\* in a reachable schedule carries a number smaller than its vehicle_counter,
\* and the id a spawn_vehicle_for_path or an override_reassign allocates differs
\* from every id of the schedule it is added to.
C30_CounterMonotoneIdsFresh == []ids_below_counter /\ [][counter_never_decreases]_vars

\* C30 witness: the schedule holds a vehicle and a dummy, named from the same
\* counter, and a spawn allocating one more id succeeds.
C30_VehicleAndDummyAllocated ==
    /\ DOMAIN schedule.vehicles # {}
    /\ DOMAIN schedule.dummy_tours # {}
    /\ SomeCall(schedule, LAMBDA c : c.result.outcome = "ok" /\ c.result.new_id # NoId)

\* the neighbors the task w has not evaluated to the end
unevaluated(ws, w) == ws[w].pending \cup ws[w].pushed

\* the step stays in the round: no recursion was started
same_round == remaining_recursion' = remaining_recursion /\ DOMAIN workers' = DOMAIN workers

\* when the coordinator takes a success from the channel, every task of the
\* round that has not ended finds one more found signal
signal_reaches_every_worker ==
    (success_channel # <<>> /\ success_channel' = Tail(success_channel)) =>
        \A w \in DOMAIN workers :
            ~workers[w].finished => workers'[w].found = workers[w].found + 1

\* a task evaluating a neighbor while a found signal waits takes exactly one
\* signal and has a match at that neighbor, whatever the neighbor's value
signalled_worker_stops ==
    same_round =>
        \A w \in DOMAIN workers :
            unevaluated(workers', w) # unevaluated(workers, w) =>
                /\ workers'[w].found >= workers[w].found - 1
                /\ workers[w].found > 0 =>
                       /\ workers'[w].found = workers[w].found - 1
                       /\ workers'[w].matched =
                              workers[w].matched \cup (unevaluated(workers, w) \ unevaluated(workers', w))

\* C32: once the coordinator has received a strictly improving neighbor, a
\* found signal is sent to every task of the round; every task tests for the
\* signal once per evaluated neighbor, and the first neighbor a task evaluates
\* after the signal arrived matches, so that the task stops there and leaves
\* the rest of its neighborhood unscanned.
C32_CancelledWorkerStops == [][signal_reaches_every_worker /\ signalled_worker_stops]_vars

\* C32 witness: a task has ended on a neighbor that does not improve, matched
\* by a found signal, with a neighbor of its solution left unevaluated.
C32_StoppedWithNeighborsLeft ==
    /\ input.improver = "TakeAnyParallelRecursion"
    /\ \E w \in DOMAIN workers :
           /\ workers[w].finished
           /\ unevaluated(workers, w) # {}
           /\ \A k \in workers[w].matched :
                  ~is_improvement(objective_value(neighborhood(solutions[w])[k]), objective_to_beat)
           /\ workers[w].matched # {}

\* the tasks that have ended without sending a success
ended_without_success == {w \in DOMAIN workers : workers[w].finished /\ ~workers[w].sent.some}

\* a list a task reports: with a recursion_width at most that many candidates,
\* of pairwise different objective values
is_reported_list(list) ==
    input.recursion_width.some =>
        /\ Len(list) <= input.recursion_width.val
        /\ \A i, j \in DOMAIN list : i # j => objective_value(list[i]) # objective_value(list[j])

\* C33: every task that has ended without a success of its own, cancelled or
\* at the end of its neighborhood, has sent its list of candidates on the
\* failure channel, and every list sent holds at most recursion_width
\* candidates of pairwise different objective values.
C33_CancelledWorkerReports ==
    (input.improver = "TakeAnyParallelRecursion") =>
        /\ Len(failure_channel) = Cardinality(ended_without_success)
        /\ \A i \in DOMAIN failure_channel : is_reported_list(failure_channel[i])

\* the neighbor k of the candidate w of the round improves on the value to beat
neighbor_improves(w, k) ==
    is_improvement(objective_value(neighborhood(solutions[w])[k]), objective_to_beat)

\* some neighbor of some candidate of the round improves
round_has_improvement ==
    \E w \in DOMAIN solutions : \E k \in DOMAIN neighborhood(solutions[w]) : neighbor_improves(w, k)

\* every task of the round has ended and the success channel is drained
round_is_over ==
    /\ success_channel = <<>>
    /\ \A w \in DOMAIN workers : workers[w].finished

\* C34: a round of TakeAnyParallelRecursion that is over holds a result exactly
\* when some neighbor of some candidate of the round improves strictly on the
\* incumbent, under every interleaving; a found signal, and a match on a
\* neighbor that does not improve, only exist once a success was received; the
\* improver returns None only from a round without an improving neighbor.
C34_RoundComplete ==
    (input.improver = "TakeAnyParallelRecursion") =>
        /\ round_is_over => (result.some <=> round_has_improvement)
        /\ \A w \in DOMAIN workers :
               (workers[w].found > 0 \/ \E k \in workers[w].matched : ~neighbor_improves(w, k)) =>
                   result.some
        /\ (returned.done /\ ~returned.value.some) => ~round_has_improvement
        /\ (returned.done /\ round_has_improvement) => returned.value.some

\* C34 witness: the improver has returned Some from a round in which a task
\* was cancelled before it evaluated an improving neighbor of its own.
C34_CancelledBeforeOwnImprovement ==
    /\ input.improver = "TakeAnyParallelRecursion"
    /\ returned.done /\ returned.value.some
    /\ \E w \in DOMAIN workers :
           /\ workers[w].finished
           /\ ~workers[w].sent.some
           /\ \E k \in unevaluated(workers, w) : neighbor_improves(w, k)

\* the messages the tasks of the round have sent on both channels
messages_sent == Cardinality({w \in DOMAIN workers : workers[w].sent.some}) + Len(failure_channel)

\* a step in which a message is put on the success or the failure channel
worker_sends ==
    \/ Len(success_channel') > Len(success_channel)
    \/ Len(failure_channel') > Len(failure_channel)

\* C35: no channel operation of TakeAnyParallelRecursion fails: the scope
\* closure, which holds both receivers, is not left while a task of the round
\* has not ended, so that every send finds its receiver; a found signal sent
\* when a task has ended changes nothing; and a task sends at most one message
\* on the success and failure channels together, when it ends.
C35_NoChannelOperationFails ==
    /\ [](returned.done => \A w \in DOMAIN workers : workers[w].finished)
    /\ [](messages_sent <= Cardinality({w \in DOMAIN workers : workers[w].finished}))
    /\ [][/\ worker_sends => (~returned.done /\ ~returned'.done /\ same_round)
          /\ same_round => \A w \in DOMAIN workers : workers[w].finished => workers'[w] = workers[w]
          /\ ~same_round => \A w \in DOMAIN workers : workers[w].finished]_vars

\* C35 witness: the coordinator has received a success, and sent the found
\* signal, after another task of the round had ended with a message on the
\* failure channel.
C35_SignalAfterWorkerEnded ==
    /\ input.improver = "TakeAnyParallelRecursion"
    /\ result.some
    /\ failure_channel # <<>>
    /\ \E w \in DOMAIN workers : workers[w].finished /\ workers[w].sent.some

\* the non-depot nodes of the dummy tour a call has created (none without one)
trips_of_new_dummy(res) ==
    IF res.new_id # NoId /\ res.new_id \in DOMAIN res.sched.dummy_tours
    THEN Range(NonDepots(res.sched.dummy_tours[res.new_id])) ELSE {}

\* C36: a successful override_reassign loses no node: every non-depot node of
\* the provider's or the receiver's tour before the call is afterwards in the
\* provider's tour, the receiver's tour or the new dummy tour; the nodes moved
\* are the nodes of the segment, and they are in the receiver's tour.
C36_OverrideLosesNoNode ==
    \A m \in MovesBetweenTours(schedule) :
        LET r == override_reassign(schedule, m.segment[1], m.segment[2], m.provider, m.receiver)
            segment == sub_path(tour_of(schedule, m.provider), m.segment[1], m.segment[2])
            before == trips_of(schedule, m.provider) \cup trips_of(schedule, m.receiver)
            after == trips_of(r.sched, m.provider) \cup trips_of(r.sched, m.receiver)
                         \cup trips_of_new_dummy(r)
        IN r.outcome = "ok" =>
               /\ before \subseteq after
               /\ Range(NonDepots(segment.val)) \subseteq trips_of(r.sched, m.receiver)
               /\ trips_of(r.sched, m.receiver) \ trips_of(schedule, m.receiver)
                      \subseteq Range(NonDepots(segment.val))
               /\ trips_of(schedule, m.provider) \ trips_of(r.sched, m.provider)
                      \subseteq Range(NonDepots(segment.val))

\* C36 witness: an override_reassign succeeds that displaces nodes of the
\* receiver into a new dummy tour and leaves nodes in the provider's tour.
C36_MovedDisplacedAndKept ==
    \E m \in MovesBetweenTours(schedule) :
        LET r == override_reassign(schedule, m.segment[1], m.segment[2], m.provider, m.receiver)
        IN /\ r.outcome = "ok"
           /\ m.provider # m.receiver
           /\ trips_of_new_dummy(r) # {}
           /\ trips_of(r.sched, m.provider) # {}

(***************************************************************************)
(* The order on schedules                                                  *)
(***************************************************************************)
\* Ord::cmp on integers
int_cmp(a, b) == IF a < b THEN "Less" ELSE IF a > b THEN "Greater" ELSE "Equal"

RECURSIVE tour_cmp(_, _)
\* Tour::cmp: a total order on tours, here the order of their node sequences
tour_cmp(a, b) ==
    IF a = <<>> /\ b = <<>> THEN "Equal"
    ELSE IF a = <<>> THEN "Less"
    ELSE IF b = <<>> THEN "Greater"
    ELSE IF a[1] # b[1] THEN int_cmp(a[1], b[1])
    ELSE tour_cmp(Tail(a), Tail(b))

\* Ordering::then
then(first, second) == IF first # "Equal" THEN first ELSE second

\* a.iter().zip(b.iter()).map(cmp).find(|ord| *ord != Equal), with Equal for
\* None: the zip ends with the shorter of the two lists
zip_find_not_equal(a, b) ==
    LET n == IF Len(a) < Len(b) THEN Len(a) ELSE Len(b)
        I == {i \in 1 .. n : tour_cmp(a[i], b[i]) # "Equal"}
    IN IF I = {} THEN "Equal" ELSE tour_cmp(a[MinOf(I)], b[MinOf(I)])

RECURSIVE sort_tours(_)
\* Vec::sort on tours
sort_tours(list) ==
    IF list = <<>> THEN <<>>
    ELSE LET i == MinOf({k \in DOMAIN list :
                           \A j \in DOMAIN list : tour_cmp(list[k], list[j]) # "Greater"})
         IN <<list[i]>> \o sort_tours(RemoveAt(list, i))

\* the tours of the vehicles in the order of vehicles_iter
tours_in_id_order(S) == [i \in DOMAIN S.vehicle_ids_sorted |-> S.tours[S.vehicle_ids_sorted[i]]]

\* dummy_tours.values() collected and sorted
sorted_dummy_tours(S) ==
    sort_tours([i \in DOMAIN S.dummy_ids_sorted |-> S.dummy_tours[S.dummy_ids_sorted[i]]])

\* Schedule::cmp
schedule_cmp(S, other) ==
    then(int_cmp(Cardinality(DOMAIN S.vehicles), Cardinality(DOMAIN other.vehicles)),
         LET tours_ord == zip_find_not_equal(tours_in_id_order(S), tours_in_id_order(other))
         IN IF tours_ord # "Equal" THEN tours_ord
            ELSE zip_find_not_equal(sorted_dummy_tours(S), sorted_dummy_tours(other)))

\* Schedule::eq
schedule_eq(S, other) == schedule_cmp(S, other) = "Equal"

\* C39: the order on schedules compares the number of vehicles, then the tours
\* of the vehicles in vehicle-id order, then the number of dummy tours, then
\* the sorted dummy tours: a reachable schedule and the schedule a call returns
\* for it are equal only if they have the same tours in vehicle-id order and
\* the same dummy tours up to their order, and with the same tours of vehicles
\* and different numbers of dummy tours they are not equal.
C39_EqualOnlyWithSameDummyTours ==
    EveryCall(schedule, LAMBDA c :
        LET other == c.result.sched
        IN /\ schedule_eq(schedule, other) =>
                  /\ tours_in_id_order(schedule) = tours_in_id_order(other)
                  /\ sorted_dummy_tours(schedule) = sorted_dummy_tours(other)
           /\ (/\ tours_in_id_order(schedule) = tours_in_id_order(other)
               /\ Cardinality(DOMAIN schedule.dummy_tours) # Cardinality(DOMAIN other.dummy_tours)) =>
                  ~schedule_eq(schedule, other))

\* the service trips the dummy tours of the schedule hold
trips_in_dummy_tours(S) ==
    UNION {Range(NonDepots(S.dummy_tours[d])) : d \in DOMAIN S.dummy_tours}

\* C40: in every reachable schedule no dummy tour contains a service trip that
\* is fully covered, and the dummy tour a successful override_reassign creates
\* holds only trips that are not fully covered in the schedule it returns.
C40_DummyTripsNotFullyCovered ==
    /\ \A n \in trips_in_dummy_tours(schedule) : ~is_fully_covered(schedule, n)
    /\ \A m \in MovesBetweenTours(schedule) :
           LET r == override_reassign(schedule, m.segment[1], m.segment[2], m.provider, m.receiver)
           IN r.outcome = "ok" =>
                  \A n \in trips_of_new_dummy(r) : ~is_fully_covered(r.sched, n)

(***************************************************************************)
(* Greedy::solve (solver/src/greedy.rs)                                    *)
(***************************************************************************)
\* Bound of the model: most passengers of a service trip.
MaxDemand == 3

\* Network::service_nodes: the service trips by start time
service_nodes == SortByKey(ServiceNodes, [n \in ServiceNodes |-> start_time(n)])

\* VehicleTypes::iter().next(): the types are sorted by seats, ties by id
first_vehicle_type == SortByKey(VehicleTypes, [t \in VehicleTypes |-> seats_of_type(t)])[1]

\* service_nodes().find(|s| !schedule.is_fully_covered(*s)), 0 for None
first_uncovered(S) ==
    LET I == {i \in DOMAIN service_nodes : ~is_fully_covered(S, service_nodes[i])}
    IN IF I = {} THEN 0 ELSE service_nodes[MinOf(I)]

\* the vehicles, in the order of vehicles_iter, whose last trip can reach the service trip
greedy_candidates(S, service_trip) ==
    {i \in DOMAIN S.vehicle_ids_sorted :
        can_reach(last_non_depot(tour_of(S, S.vehicle_ids_sorted[i])), service_trip)}

\* the end time of the last trip of the i-th vehicle
last_end_time(S, i) == end_time(last_non_depot(tour_of(S, S.vehicle_ids_sorted[i])))

\* Iterator::max_by_key on the end time of the last trip: the last of the
\* maximal candidates, NoId for None
final_candidate(S, service_trip) ==
    LET candidates == greedy_candidates(S, service_trip)
        best == {i \in candidates : \A j \in candidates : last_end_time(S, j) <= last_end_time(S, i)}
    IN IF candidates = {} THEN NoId
       ELSE S.vehicle_ids_sorted[CHOOSE i \in best : \A j \in best : j <= i]

\* a turn that spawns a vehicle for every service trip
greedy_turn_spawning_only(S, service_trip) ==
    spawn_vehicle_for_path(S, first_vehicle_type, <<service_trip>>)

\* one turn of the while loop of Greedy::solve on the service trip
greedy_turn(S, service_trip) ==
    IF final_candidate(S, service_trip) # NoId
    THEN add_path_to_vehicle_tour(S, final_candidate(S, service_trip), <<service_trip>>)
    ELSE spawn_vehicle_for_path(S, first_vehicle_type, <<service_trip>>)

\* a turn of the loop; unwrap panics on an error
GreedyTurn ==
    /\ greedy = "loop"
    /\ first_uncovered(schedule) # 0
    /\ LET r == greedy_turn(schedule, first_uncovered(schedule))
       IN IF r.outcome = "ok"
          THEN schedule' = r.sched /\ greedy' = "loop"
          ELSE schedule' = schedule /\ greedy' = "panicked"
    /\ UNCHANGED <<search_vars, instance, tour_nodes, transition>>

\* the loop has ended: reassign_end_depots_greedily().unwrap(), and solve returns
GreedyReturn ==
    /\ greedy = "loop"
    /\ first_uncovered(schedule) = 0
    /\ LET r == reassign_end_depots_greedily(schedule)
       IN IF r.outcome = "ok"
          THEN schedule' = r.sched /\ greedy' = "returned"
          ELSE schedule' = schedule /\ greedy' = "panicked"
    /\ UNCHANGED <<search_vars, instance, tour_nodes, transition>>

\* solve is called on an instance: Schedule::empty
GreedyInit ==
    /\ schedule = EmptySchedule
    /\ instance \in [demand : [ServiceNodes -> 0 .. MaxDemand], seats : [VehicleTypes -> 1 .. 2]]
    /\ greedy = "loop"
    /\ NoSearch /\ NoTour /\ NoTransition

GreedyNext == GreedyTurn \/ GreedyReturn

GreedySpec == GreedyInit /\ [][GreedyNext]_vars

\* solve keeps running until it returns or panics: weak fairness of GreedyNext,
\* which is enabled exactly while greedy = "loop" (either the schedule or
\* greedy changes in each of its steps), written with that state predicate
GreedyFairSpec == GreedySpec /\ ([]<>(greedy # "loop") \/ []<><<GreedyNext>>_vars)

\* some start depot has capacity for the first vehicle type
first_type_can_spawn ==
    \E d \in StartDepotNodes : can_depot_spawn_vehicle(schedule, d, first_vehicle_type)

\* the vehicles of the schedule whose last trip can reach the service trip
can_serve_next(S, service_trip) ==
    {v \in DOMAIN S.vehicles : can_reach(last_non_depot(tour_of(S, v)), service_trip)}

every_trip_fully_covered == \A n \in ServiceNodes : is_fully_covered(schedule, n)

\* what a turn of the loop does to the formations: the first service trip that
\* is not fully covered gains one vehicle at the tail of its formation, an
\* existing one whose last trip ends latest among those that can reach the
\* trip, or with no such vehicle a new one of the first type; no other
\* formation changes
greedy_turn_effect ==
    (greedy = "loop" /\ greedy' = "loop" /\ schedule' # schedule) =>
        \E i \in DOMAIN service_nodes : \E v \in DOMAIN schedule'.vehicles :
            LET service_trip == service_nodes[i]
                able == can_serve_next(schedule, service_trip)
            IN /\ ~is_fully_covered(schedule, service_trip)
               /\ \A j \in 1 .. (i - 1) : is_fully_covered(schedule, service_nodes[j])
               /\ \A n \in ServiceNodes :
                      schedule'.train_formations[n] =
                          IF n = service_trip THEN Append(schedule.train_formations[n], v)
                          ELSE schedule.train_formations[n]
               /\ IF able = {}
                  THEN /\ v \notin DOMAIN schedule.vehicles
                       /\ schedule'.vehicles[v] = first_vehicle_type
                  ELSE /\ v \in able
                       /\ \A u \in able : end_time(last_non_depot(tour_of(schedule, u)))
                                              <= end_time(last_non_depot(tour_of(schedule, v)))
                       /\ DOMAIN schedule'.vehicles = DOMAIN schedule.vehicles

\* C37: on an instance whose first vehicle type some start depot can spawn,
\* Greedy::solve returns; every turn of its loop adds one vehicle to the
\* formation of the first service trip that is not fully covered (an existing
\* vehicle whose last trip ends latest among those that can reach the trip,
\* otherwise a newly spawned one) and removes no vehicle from any formation;
\* when solve returns every service trip is fully covered.
C37_GreedyCoversEveryTrip ==
    /\ first_type_can_spawn => <>(greedy = "returned")
    /\ [](greedy = "returned" => every_trip_fully_covered)
    /\ [][greedy_turn_effect]_vars

\* C37 witness: solve has returned a schedule in which a vehicle serves two
\* trips and a trip is served by two vehicles.
C37_ReturnedWithReusedVehicle ==
    /\ greedy = "returned"
    /\ \E v \in DOMAIN schedule.vehicles : Len(NonDepots(tour_of(schedule, v))) >= 2
    /\ \E n \in ServiceNodes : Len(schedule.train_formations[n]) >= 2

(***************************************************************************)
(* Tour of src/schedule/tour.rs: a vector of nodes sorted by start time,   *)
(* into which node sequences are inserted.  Its Network is not part of the *)
(* sources at hand: twelve trips between the two locations, a start node   *)
(* at location A at time 0 and an end node every node reaches.             *)
(***************************************************************************)
\* Bound of the model: longest node sequence handed to Tour::insert.
MaxSequence == 2

StartNode == 30

EndNode == 50

TourTrips == 31 .. 42

\* trips: 31 = A->B [1,2], 32 = B->A [2,3], 33 = A->B [3,4], 34 = B->A [4,5],
\*        35 = A->A [1,3], 36 = B->B [2,4], 37 = A->B [5,6], 38 = B->A [0,1],
\*        39 = B->B [4,6], 40 = A->A [3,5], 41 = B->A [6,7], 42 = A->A [6,8]
nw_start_location(n) == IF n \in {31, 33, 35, 37, 40, 42, StartNode} THEN "A" ELSE "B"

nw_end_location(n) == IF n \in {32, 34, 35, 38, 40, 41, 42, StartNode} THEN "A" ELSE "B"

nw_start_time(n) ==
    CASE n = 31 -> 1 [] n = 32 -> 2 [] n = 33 -> 3 [] n = 34 -> 4 [] n = 35 -> 1
      [] n = 36 -> 2 [] n = 37 -> 5 [] n = 38 -> 0 [] n = 39 -> 4 [] n = 40 -> 3
      [] n = 41 -> 6 [] n = 42 -> 6 [] n = StartNode -> Earliest [] OTHER -> Latest

nw_end_time(n) ==
    CASE n = 31 -> 2 [] n = 32 -> 3 [] n = 33 -> 4 [] n = 34 -> 5 [] n = 35 -> 3
      [] n = 36 -> 4 [] n = 37 -> 6 [] n = 38 -> 1 [] n = 39 -> 6 [] n = 40 -> 5
      [] n = 41 -> 7 [] n = 42 -> 8 [] n = StartNode -> Earliest [] OTHER -> Latest

\* Network::can_reach: the arrival plus the dead-head time is at most the
\* departure; the end node reaches nothing and is reached by every other node
nw_can_reach(a, b) ==
    CASE a = EndNode -> FALSE
      [] b = StartNode -> FALSE
      [] b = EndNode -> TRUE
      [] OTHER -> nw_end_time(a) + travel_time(nw_end_location(a), nw_start_location(b))
                      <= nw_start_time(b)

\* positions count from 0 as in the source: the node at a position
node_at(nodes, pos) == nodes[pos + 1]

RECURSIVE latest_arrival_before_strictly(_, _, _, _)
\* a search for the last node that ends strictly before the time
latest_arrival_before_strictly(nodes, time, left, right) ==
    IF left + 1 = right
    THEN IF nw_end_time(node_at(nodes, left)) < time THEN Some(left) ELSE None
    ELSE LET mid == left + (right - left) \div 2
         IN IF nw_end_time(node_at(nodes, mid)) < time
            THEN latest_arrival_before_strictly(nodes, time, mid, right)
            ELSE latest_arrival_before_strictly(nodes, time, left, mid)

RECURSIVE latest_arrival_before(_, _, _, _)
\* Tour::latest_arrival_before: binary search on the end times
latest_arrival_before(nodes, time, left, right) ==
    IF left + 1 = right
    THEN IF nw_end_time(node_at(nodes, left)) <= time THEN Some(left) ELSE None
    ELSE LET mid == left + (right - left) \div 2
         IN IF nw_end_time(node_at(nodes, mid)) <= time
            THEN latest_arrival_before(nodes, time, mid, right)
            ELSE latest_arrival_before(nodes, time, left, mid)

RECURSIVE step_back_to_reaching(_, _, _)
\* while !can_reach(nodes[pos], node) { pos -= 1 }; below position 0 the
\* subtraction overflows
step_back_to_reaching(nodes, node, pos) ==
    IF pos < 0 THEN None
    ELSE IF nw_can_reach(node_at(nodes, pos), node) THEN Some(pos)
    ELSE step_back_to_reaching(nodes, node, pos - 1)

\* Tour::latest_node_reaching
latest_node_reaching(nodes, node) ==
    IF ~nw_can_reach(node_at(nodes, 0), node) THEN None
    ELSE LET candidate == latest_arrival_before(nodes, nw_start_time(node), 0, Len(nodes))
         IN IF ~candidate.some THEN None
            ELSE step_back_to_reaching(nodes, node, candidate.val)

RECURSIVE earliest_departure_after(_, _, _, _)
\* Tour::earliest_departure_after: binary search on the start times
earliest_departure_after(nodes, time, left, right) ==
    IF left + 1 = right
    THEN IF nw_start_time(node_at(nodes, left)) >= time THEN Some(left) ELSE None
    ELSE LET mid == left + (right - left - 1) \div 2
         IN IF nw_start_time(node_at(nodes, mid)) >= time
            THEN earliest_departure_after(nodes, time, left, mid + 1)
            ELSE earliest_departure_after(nodes, time, mid + 1, right)

RECURSIVE step_forward_to_reached(_, _, _)
\* while !can_reach(node, nodes[pos]) { pos += 1 }; behind the last position
\* the index is out of bounds
step_forward_to_reached(nodes, node, pos) ==
    IF pos >= Len(nodes) THEN None
    ELSE IF nw_can_reach(node, node_at(nodes, pos)) THEN Some(pos)
    ELSE step_forward_to_reached(nodes, node, pos + 1)

\* Tour::earliest_node_reached_by
earliest_node_reached_by(nodes, node) ==
    IF ~nw_can_reach(node, node_at(nodes, Len(nodes) - 1)) THEN None
    ELSE LET candidate == earliest_departure_after(nodes, nw_end_time(node), 0, Len(nodes))
         IN IF ~candidate.some THEN None
            ELSE step_forward_to_reached(nodes, node, candidate.val)

\* Tour::insert: the new node vector and the removed nodes; expect and an
\* inverted splice range panic
insert(nodes, node_sequence) ==
    LET start_pos == latest_node_reaching(nodes, node_sequence[1])
        end_pos == earliest_node_reached_by(nodes, node_sequence[Len(node_sequence)])
    IN IF ~start_pos.some \/ ~end_pos.some THEN [outcome |-> "panic", nodes |-> nodes, removed |-> <<>>]
       ELSE IF start_pos.val + 1 > end_pos.val
            THEN [outcome |-> "panic", nodes |-> nodes, removed |-> <<>>]
       ELSE [outcome |-> "ok",
             nodes |-> SubSeq(nodes, 1, start_pos.val + 1) \o node_sequence
                           \o SubSeq(nodes, end_pos.val + 1, Len(nodes)),
             removed |-> SubSeq(nodes, start_pos.val + 2, end_pos.val)]

\* every consecutive pair of the sequence satisfies can_reach
is_feasible(seq) == \A i \in 1 .. (Len(seq) - 1) : nw_can_reach(seq[i], seq[i + 1])

\* the feasible sequences of trips handed to insert
NodeSequences ==
    {seq \in UNION {[1 .. n -> TourTrips] : n \in 1 .. MaxSequence} : is_feasible(seq)}

\* a tour from the start node to the end node
TourInit ==
    /\ tour_nodes = <<StartNode, EndNode>>
    /\ schedule = EmptySchedule
    /\ NoSearch /\ ModelInstance /\ NoGreedy /\ NoTransition

\* tour.insert(node_sequence) returns; a call that panics leaves no tour to go on with
TourInsert ==
    /\ tour_nodes # <<>>
    /\ \E node_sequence \in NodeSequences :
           /\ insert(tour_nodes, node_sequence).outcome = "ok"
           /\ tour_nodes' = insert(tour_nodes, node_sequence).nodes
    /\ UNCHANGED <<schedule, search_vars, instance, greedy, transition>>

TourSpec == TourInit /\ [][TourInsert]_vars

\* the nodes are sorted by start time
is_sorted_by_time(nodes) ==
    \A i \in 1 .. (Len(nodes) - 1) : nw_start_time(nodes[i]) <= nw_start_time(nodes[i + 1])

\* the greatest position (from 1) of the tour whose node can reach the node, 0 for none
greatest_reaching(nodes, node) ==
    LET I == {i \in DOMAIN nodes : nw_can_reach(nodes[i], node)}
    IN IF I = {} THEN 0 ELSE CHOOSE i \in I : \A j \in I : j <= i

\* the least position (from 1) of the tour whose node the node can reach, 0 for none
least_reached(nodes, node) ==
    LET J == {j \in DOMAIN nodes : nw_can_reach(node, nodes[j])}
    IN IF J = {} THEN 0 ELSE CHOOSE j \in J : \A k \in J : j <= k

\* the sequences the claim is about: the first node is reachable from the
\* tour's first node, the last node reaches the tour's last node
InsertableSequences(nodes) ==
    {seq \in NodeSequences :
        /\ nw_can_reach(nodes[1], seq[1])
        /\ nw_can_reach(seq[Len(seq)], nodes[Len(nodes)])}

\* C31: a tour is sorted by time, and for a feasible sequence P whose first
\* node the tour's first node can reach and whose last node reaches the tour's
\* last node, insert finds L, the greatest position whose node can reach P's
\* first node, and R, the least position whose node P's last node can reach,
\* with L < R; the new tour is nodes[0..=L] ++ P ++ nodes[R..], the nodes
\* returned are the old nodes strictly between L and R, and every consecutive
\* pair of the new tour satisfies can_reach.
C31_InsertSplicesBetweenLAndR ==
    tour_nodes # <<>> =>
        /\ is_sorted_by_time(tour_nodes)
        /\ \A P \in InsertableSequences(tour_nodes) :
               LET L == greatest_reaching(tour_nodes, P[1])
                   R == least_reached(tour_nodes, P[Len(P)])
                   r == insert(tour_nodes, P)
               IN /\ r.outcome = "ok"
                  /\ 0 < L /\ L < R
                  /\ r.nodes = SubSeq(tour_nodes, 1, L) \o P \o SubSeq(tour_nodes, R, Len(tour_nodes))
                  /\ r.removed = SubSeq(tour_nodes, L + 1, R - 1)
                  /\ is_feasible(r.nodes)

\* C31 witness: a tour of three trips at least, and a sequence of two trips
\* whose insertion keeps a trip before it and a trip after it and removes a
\* trip between them.
C31_RemovesFromTheMiddle ==
    /\ Len(tour_nodes) >= 5
    /\ \E P \in InsertableSequences(tour_nodes) :
           /\ Len(P) = 2
           /\ greatest_reaching(tour_nodes, P[1]) > 1
           /\ least_reached(tour_nodes, P[2]) < Len(tour_nodes)
           /\ insert(tour_nodes, P).outcome = "ok"
           /\ insert(tour_nodes, P).removed # <<>>

(***************************************************************************)
(* Transition (solution/src/transition.rs): the vehicles' tours grouped    *)
(* into cycles.  A tour is modelled by its maintenance counter.            *)
(***************************************************************************)
\* Bound of the model: most tours handed to a constructor.
MaxTours == 3

\* Bound of the model: the maintenance counters lie between -MaxMaintenance and MaxMaintenance.
MaxMaintenance == 2

\* Tour::maintenance_counter of the vehicle's tour
maintenance_counter(tours, vehicle_id) == tours[vehicle_id]

\* MaintenanceCounter::max(0)
max_zero(maintenance_counter_) == IF maintenance_counter_ > 0 THEN maintenance_counter_ ELSE 0

\* TransitionCycle::new
TransitionCycle(cycle, maintenance_violation) ==
    [cycle |-> cycle, maintenance_violation |-> maintenance_violation]

RECURSIVE sum_of_violations(_)
sum_of_violations(cycles) ==
    IF cycles = <<>> THEN 0 ELSE cycles[1].maintenance_violation + sum_of_violations(Tail(cycles))

\* the orders in which a HashMap may iterate over its keys
IterationOrders(tours) ==
    {order \in [1 .. Cardinality(DOMAIN tours) -> DOMAIN tours] :
        \A i, j \in DOMAIN order : i # j => order[i] # order[j]}

\* Transition::one_cylce_per_vehicle, the map iterated in the given order
one_cylce_per_vehicle(tours, order) ==
    LET cycles == [i \in DOMAIN order |->
                      TransitionCycle(<<order[i]>>, max_zero(maintenance_counter(tours, order[i])))]
    IN [cycles |-> cycles, total_maintenance_violation |-> sum_of_violations(cycles)]

RECURSIVE sort_unassigned(_, _)
\* sort_by_key on the negated counter: stable, the largest counter first
sort_unassigned(tours, list) ==
    IF list = <<>> THEN <<>>
    ELSE LET i == MinOf({k \in DOMAIN list :
                           \A j \in DOMAIN list : maintenance_counter(tours, list[k])
                                                      >= maintenance_counter(tours, list[j])})
         IN <<list[i]>> \o sort_unassigned(tours, RemoveAt(list, i))

RECURSIVE sort_clusters(_)
\* sort_by_key on the cluster's counter: stable, the smallest counter first
sort_clusters(clusters) ==
    IF clusters = <<>> THEN <<>>
    ELSE LET i == MinOf({k \in DOMAIN clusters :
                           \A j \in DOMAIN clusters : clusters[k].counter <= clusters[j].counter})
         IN <<clusters[i]>> \o sort_clusters(RemoveAt(clusters, i))

\* a push that leaves the cluster's counter as it is
push_keeping_counter(cluster, vehicle, maintenance_counter_of_tour) ==
    [vehicles |-> Append(cluster.vehicles, vehicle), counter |-> cluster.counter]

\* cluster.push(vehicle); *maintenance_counter += maintenance_counter_of_tour
push_to_cluster(cluster, vehicle, maintenance_counter_of_tour) ==
    [vehicles |-> Append(cluster.vehicles, vehicle),
     counter |-> cluster.counter + maintenance_counter_of_tour]

\* one turn of the loop over the unassigned vehicles: the first cluster the
\* vehicle fits into, else the last cluster, else a new cluster; then the sort
assign_to_cluster(tours, sorted_clusters, vehicle) ==
    LET maintenance_counter_of_tour == maintenance_counter(tours, vehicle)
        fitting == {k \in DOMAIN sorted_clusters :
                       sorted_clusters[k].counter + maintenance_counter_of_tour <= 0}
        target == IF fitting # {} THEN MinOf(fitting) ELSE Len(sorted_clusters)
    IN sort_clusters(
           IF sorted_clusters = <<>>
           THEN <<[vehicles |-> <<vehicle>>, counter |-> maintenance_counter_of_tour]>>
           ELSE [sorted_clusters EXCEPT
                    ![target] = push_to_cluster(@, vehicle, maintenance_counter_of_tour)])

RECURSIVE assign_all(_, _, _)
\* for vehicle in sorted_unassigned_vehicles
assign_all(tours, sorted_clusters, sorted_unassigned_vehicles) ==
    IF sorted_unassigned_vehicles = <<>> THEN sorted_clusters
    ELSE assign_all(tours, assign_to_cluster(tours, sorted_clusters, sorted_unassigned_vehicles[1]),
                    Tail(sorted_unassigned_vehicles))

\* Transition::one_cluster_per_maintenance, the map iterated in the given order
one_cluster_per_maintenance(tours, order) ==
    LET maintenance == SelectSeq(order, LAMBDA v : maintenance_counter(tours, v) < 0)
        unassigned == SelectSeq(order, LAMBDA v : maintenance_counter(tours, v) >= 0)
        clusters == [i \in DOMAIN maintenance |->
                        [vehicles |-> <<maintenance[i]>>,
                         counter |-> maintenance_counter(tours, maintenance[i])]]
        sorted_clusters == assign_all(tours, sort_clusters(clusters), sort_unassigned(tours, unassigned))
        cycles == [i \in DOMAIN sorted_clusters |->
                      TransitionCycle(sorted_clusters[i].vehicles, max_zero(sorted_clusters[i].counter))]
    IN [cycles |-> cycles, total_maintenance_violation |-> sum_of_violations(cycles)]

RECURSIVE sum_of_counters(_, _)
\* the sum of the maintenance counters of the tours of the cycle's vehicles
sum_of_counters(tours, cycle) ==
    IF cycle = <<>> THEN 0
    ELSE maintenance_counter(tours, cycle[1]) + sum_of_counters(tours, Tail(cycle))

RECURSIVE sum_of_computed_violations(_, _)
sum_of_computed_violations(tours, cycles) ==
    IF cycles = <<>> THEN 0
    ELSE max_zero(sum_of_counters(tours, cycles[1].cycle))
             + sum_of_computed_violations(tours, Tail(cycles))

\* Transition::verify_consistency: TRUE when no assertion fails
transition_verify_consistency(T, tours) ==
    LET cycles == flatten([i \in DOMAIN T.cycles |-> T.cycles[i].cycle])
    IN /\ Len(cycles) = Cardinality(DOMAIN tours)
       /\ DOMAIN tours = Range(cycles)
       /\ \A i \in DOMAIN T.cycles :
              max_zero(sum_of_counters(tours, T.cycles[i].cycle)) = T.cycles[i].maintenance_violation
       /\ sum_of_computed_violations(tours, T.cycles) = T.total_maintenance_violation

\* the maps of tours handed to the constructors: vehicles 1 .. n
TourMaps ==
    UNION {[1 .. n -> (0 - MaxMaintenance) .. MaxMaintenance] : n \in 0 .. MaxTours}

TransitionInit ==
    /\ transition \in [tours : TourMaps, built : {"none"}, cycles : {<<>>}, total : {0}]
    /\ schedule = EmptySchedule
    /\ NoSearch /\ ModelInstance /\ NoGreedy /\ NoTour

\* what a constructor returns, kept with the tours it was built from
Built(name, T) ==
    [tours |-> transition.tours, built |-> name, cycles |-> T.cycles,
     total |-> T.total_maintenance_violation]

OneCyclePerVehicle ==
    /\ transition.built = "none"
    /\ \E order \in IterationOrders(transition.tours) :
           transition' = Built("one_cylce_per_vehicle", one_cylce_per_vehicle(transition.tours, order))
    /\ UNCHANGED <<schedule, search_vars, instance, greedy, tour_nodes>>

OneClusterPerMaintenance ==
    /\ transition.built = "none"
    /\ \E order \in IterationOrders(transition.tours) :
           transition' = Built("one_cluster_per_maintenance",
                               one_cluster_per_maintenance(transition.tours, order))
    /\ UNCHANGED <<schedule, search_vars, instance, greedy, tour_nodes>>

TransitionNext == OneCyclePerVehicle \/ OneClusterPerMaintenance

TransitionSpec == TransitionInit /\ [][TransitionNext]_vars

\* the Transition held
transition_built == [cycles |-> transition.cycles, total_maintenance_violation |-> transition.total]

\* C38: for every map of tours, the Transition that one_cylce_per_vehicle and
\* the Transition that one_cluster_per_maintenance builds pass
\* verify_consistency: every vehicle with a tour is in exactly one cycle, the
\* maintenance_violation of a cycle is max(0, sum of the maintenance counters
\* of its vehicles' tours), and the total is the sum over the cycles.
C38_ConstructorsPassVerifyConsistency ==
    transition.built # "none" =>
        /\ transition_verify_consistency(transition_built, transition.tours)
        /\ \A v \in DOMAIN transition.tours :
               Cardinality({<<i, k>> \in (DOMAIN transition.cycles) \X (1 .. MaxTours) :
                               /\ k \in DOMAIN transition.cycles[i].cycle
                               /\ transition.cycles[i].cycle[k] = v}) = 1
        /\ transition.built = "one_cylce_per_vehicle" =>
               \A i \in DOMAIN transition.cycles : Len(transition.cycles[i].cycle) = 1

\* C38 witness: one_cluster_per_maintenance has built two cycles, one of them
\* with two vehicles and a maintenance violation.
C38_ClusterWithViolation ==
    /\ transition.built = "one_cluster_per_maintenance"
    /\ Len(transition.cycles) = 2
    /\ \E i \in DOMAIN transition.cycles :
           /\ Len(transition.cycles[i].cycle) = 2
           /\ transition.cycles[i].maintenance_violation > 0

====
